---- MODULE Spec2Model ----
(***************************************************************************)
(* Trace-to-metric reduction pipeline of the figure scripts:               *)
(*   parse_trace_file  (scripts/figure1, scripts/figure5, Figures/figure6, *)
(*                      Figures/figure7)                                   *)
(*   the inter-arrival analyzers built on it,                              *)
(*   np.percentile(x, 95) on its own,                                      *)
(*   the binners of Figures/figure7 and scripts/figure5,                   *)
(*   calculate_hit_rates of scripts/figure3,                               *)
(*   the per-scheme averaging of scripts/figure1,                          *)
(*   main() of scripts/figure5, Figures/figure6 and Figures/figure7,       *)
(*   analyze_cache_sizes and calculate_metrics of Figures/figure4,         *)
(*   calculate_median_dt_metrics of scripts/figure2.                       *)
(* Times are kept in integer milliseconds; a float conversion that yields  *)
(* a non-finite value is kept as a class tag.                              *)
(***************************************************************************)
EXTENDS Integers, Sequences, FiniteSets, TLC

VARIABLES
    \* ---- parse_trace_file ----
    file,            \* the lines of the opened trace file
    pos,             \* number of lines the for-loop body has consumed
    data,            \* data = []
    skipped_lines,   \* skipped_lines = 0
    entry_count,     \* entry_count = 0
    pvariant,        \* which script's parse_trace_file is running
    max_entries,     \* its max_entries argument (0 when it has none)
    ppc,             \* "idle" | "reading" | "done"
    \* ---- the inter-arrival analyzers ----
    trace_data,          \* the parsed entries handed to the analyzer
    avariant,            \* which script's analyzer is running
    block_requests,      \* the grouping dict (block_requests / pipeline_requests)
    key_order,           \* insertion order of the dict's keys
    ti,                  \* entries of trace_data already grouped
    gi,                  \* groups already visited by the metrics loop
    deltas,              \* every delta the last visited group's loop computed
    inter_arrival_times, \* inter_arrival_times of the last visited group
    protected_caps,      \* Figures/figure6: protected_caps
    tau_values,          \* scripts/figure5: tau_values
    alpha_tti_values,    \* Figures/figure7: alpha_tti_values
    peak_dt_values,      \* peak_dt_values
    apc,                 \* "idle" | "grouping" | "metrics" | "done"
    \* ---- np.percentile(., 95) on its own ----
    perc_input,          \* the list handed to np.percentile
    perc_perm,           \* the same values in another order
    perc_of_input,       \* np.percentile(perc_input, 95)
    perc_of_perm,        \* np.percentile(perc_perm, 95)
    qpc,                 \* "idle" | "input" | "permuted" | "done"
    \* ---- the binners ----
    bvariant,            \* which script's binner is running
    num_bins,            \* its num_bins argument
    alpha_bins,          \* Figures/figure7 alpha_bins, scripts/figure5 bin_edges
    bi,                  \* iterations of the bin loop already made
    bin_indices,         \* the `indices` / `mask` of each iteration made, in order
    binned_alpha,        \* Figures/figure7 binned_alpha, scripts/figure5 bin_centers
    binned_tau,          \* scripts/figure5 binned_tau
    binned_peak_dt,      \* Figures/figure7 binned_peak_dt, scripts/figure5 binned_peak
    bin_counts,          \* Figures/figure7 bin_counts
    bpc,                 \* "idle" | "start" | "binning" | "done"
    \* ---- calculate_hit_rates ----
    hit_trace_data,      \* its trace_data argument
    pipeline_requests,   \* pipeline -> its requests, in trace order
    pipeline_order,      \* the keys of pipeline_requests in insertion order
    hti,                 \* trace entries already grouped
    hgi,                 \* pipelines already tallied
    hri,                 \* requests of the current pipeline already tallied
    schemes,             \* scheme id -> [name, hits, total]
    si,                  \* schemes already visited by the reporting loop
    hit_rates,           \* the rates reported so far
    scheme_names,        \* the names reported so far
    hit_result,          \* "pending" | "none" | "table" | "ZeroDivisionError"
    hpc,                 \* "idle" | "grouping" | "tallying" | "reporting" | "done"
    \* ---- calculate_peak_dt_metrics (with the analyzer's variables) ----
    scheme_metrics,      \* scheme index -> the peak values of its pipelines
    fi,                  \* schemes already visited by the averaging loop
    avg_peak_dts,        \* the averages emitted so far
    scheme_labels,       \* the labels emitted so far
    scheme_result,       \* "pending" | "none" | "table"
    \* ---- main of a figure script ----
    script,              \* which script's main is running
    trace_files,         \* the number of files glob.glob found
    plotted,             \* the plotting function has been called
    main_outcome,        \* "running" | the way main ended
    mpc,                 \* "idle" | "start" | "metrics" | "binning" | "plot" | "returned"
    \* ---- Figures/figure4 analyze_cache_sizes and calculate_metrics ----
    size_trace_data,     \* the trace_data argument of analyze_cache_sizes
    block_size_requests, \* size key -> its requests, in trace order
    zti,                 \* trace entries already grouped
    selected_sizes,      \* the size keys selected for the figure
    zi,                  \* selected sizes already visited
    cache_sizes,         \* the size keys emitted so far
    size_peak_dt_values, \* their peak values (peak_dt_values of the script)
    sizes_result,        \* "pending" | "none" | "table"
    zpc,                 \* "idle" | "grouping" | "selecting" | "metrics" | "done"
    \* ---- scripts/figure2 calculate_median_dt_metrics ----
    window_trace_data,   \* its trace_data argument
    all_requests,        \* the trace sorted by time
    time_bins,           \* the window edges
    wi,                  \* windows already visited
    window_requests,     \* the places in all_requests of each visited window's requests
    timestamps,          \* the window centers emitted so far
    median_disk_head_times, \* the medians emitted so far
    request_counts,      \* the request counts emitted so far
    wpc                  \* "idle" | "start" | "windows" | "done" | "smoothed"

pvars == <<file, pos, data, skipped_lines, entry_count, pvariant, max_entries, ppc>>

avars == <<trace_data, avariant, block_requests, key_order, ti, gi, deltas,
           inter_arrival_times, protected_caps, tau_values, alpha_tti_values,
           peak_dt_values, apc>>

qvars == <<perc_input, perc_perm, perc_of_input, perc_of_perm, qpc>>

\* the components modelled after the parser and the analyzers
bvars == <<bvariant, num_bins, alpha_bins, bi, bin_indices, binned_alpha, binned_tau,
           binned_peak_dt, bin_counts, bpc>>

hvars == <<hit_trace_data, pipeline_requests, pipeline_order, hti, hgi, hri, schemes, si,
           hit_rates, scheme_names, hit_result, hpc>>

svars == <<scheme_metrics, fi, avg_peak_dts, scheme_labels, scheme_result>>

mvars == <<script, trace_files, plotted, main_outcome, mpc>>

zvars == <<size_trace_data, block_size_requests, zti, selected_sizes, zi, cache_sizes,
           size_peak_dt_values, sizes_result, zpc>>

wvars == <<window_trace_data, all_requests, time_bins, wi, window_requests, timestamps,
           median_disk_head_times, request_counts, wpc>>

lvars == <<svars, mvars, zvars, wvars>>

xvars == <<qvars, bvars, hvars, lvars>>

vars == <<pvars, avars, xvars>>

\* ------------------------------------------------------------------------
\* Bounds of the model
MaxLines == 3        \* longest trace file
MaxCap == 2          \* largest max_entries argument
MaxEvents == 4       \* longest enumerated trace handed to an analyzer
MaxLong == 22        \* longest single-group trace handed to an analyzer
MaxDeltas == 4       \* longest list handed to np.percentile on its own
MaxPairs == 4        \* longest enumerated list of pairs handed to a binner
MaxMany == 20        \* longest patterned list of pairs handed to a binner
MaxRequests == 4     \* longest trace handed to calculate_hit_rates
MaxParsed == 3       \* longest trace parsed within a modelled main
MaxSizes == 9        \* most distinct request sizes of a trace handed to analyze_cache_sizes
MaxWindowed == 4     \* longest trace handed to calculate_median_dt_metrics

\* ------------------------------------------------------------------------
\* Tokens of a line after line.split()
IntTok(n) == [k |-> "int", v |-> n]      \* "12"     : int() and float() accept
DecTok(ms) == [k |-> "dec", v |-> ms]    \* "10.050" : only float() accepts
NanTok == [k |-> "nan", v |-> 0]         \* "nan"    : only float() accepts
InfTok == [k |-> "inf", v |-> 0]         \* "inf"    : only float() accepts
NegInfTok == [k |-> "-inf", v |-> 0]     \* "-inf"   : only float() accepts
WordTok == [k |-> "word", v |-> 0]       \* "abc"    : neither accepts

\* int(values[i]) raises ValueError unless the token is an integer literal
IntOk(tok) == tok.k = "int"
IntVal(tok) == tok.v

\* float(values[i]) raises ValueError only for a non-numeric token
FloatOk(tok) == tok.k # "word"
FloatVal(tok) ==
    CASE tok.k = "int" -> [cls |-> "finite", ms |-> tok.v * 1000]
      [] tok.k = "dec" -> [cls |-> "finite", ms |-> tok.v]
      [] OTHER -> [cls |-> tok.k, ms |-> 0]

\* A line after line.strip(): a comment starts with '#', a blank line has no
\* characters; otherwise toks is line.split()
Line(c, t) == [comment |-> c, toks |-> t]
BlankLine == Line(FALSE, <<>>)
CommentLine == Line(TRUE, <<WordTok>>)
Fields8(b, t, p) ==
    <<IntTok(b), IntTok(0), IntTok(4096), t, IntTok(0), IntTok(p), IntTok(0), IntTok(0)>>
ShortLine == Line(FALSE, <<IntTok(1), IntTok(0), IntTok(4096), DecTok(10000), IntTok(0)>>)
GoodLine1 == Line(FALSE, Fields8(1, IntTok(10), 0))
GoodLine2 == Line(FALSE, Fields8(2, DecTok(10050), 1))
BadIntLine == Line(FALSE, <<WordTok>> \o Tail(Fields8(1, IntTok(10), 0)))
BadFloatLine == Line(FALSE, Fields8(1, WordTok, 0))
NanLine == Line(FALSE, Fields8(1, NanTok, 0))
InfLine == Line(FALSE, Fields8(2, InfTok, 1))
NegInfLine == Line(FALSE, Fields8(2, NegInfTok, 1))
NineLine == Line(FALSE, Fields8(1, DecTok(10200), 0) \o <<IntTok(7)>>)
TenLine == Line(FALSE, Fields8(2, DecTok(10200), 1) \o <<IntTok(7), IntTok(3)>>)
NineBadLine == Line(FALSE, Fields8(1, DecTok(10200), 0) \o <<WordTok>>)

Lines ==
    {BlankLine, CommentLine, ShortLine, GoodLine1, GoodLine2, BadIntLine,
     BadFloatLine, NanLine, InfLine, NegInfLine, NineLine, TenLine, NineBadLine}

RECURSIVE SeqsUpTo(_, _)
SeqsUpTo(S, n) ==
    IF n = 0 THEN {<<>>}
    ELSE LET shorter == SeqsUpTo(S, n - 1)
         IN shorter \cup {Append(s, x) : s \in {t \in shorter : Len(t) = n - 1}, x \in S}

\* ------------------------------------------------------------------------
\* parse_trace_file, the four variants
PVariants == {"figure1", "figure5", "figure6", "figure7"}

\* the variants that take max_entries and break once entry_count reaches it
Capped(v) == v # "figure7"

\* the entry = {...} literal: key -> index (1-based) of the field int() converts
IntFields(v) ==
    CASE v = "figure1" ->
            [block_id |-> 1, size |-> 3, op |-> 5, pipeline |-> 6, namespace |-> 7, user |-> 8]
      [] v = "figure5" -> [block_id |-> 1, op |-> 5]
      [] v = "figure6" -> [block_id |-> 1, op |-> 5, pipeline |-> 6, namespace |-> 7]
      [] v = "figure7" ->
            [block_id |-> 1, offset |-> 2, size |-> 3, op |-> 5, pipeline |-> 6,
             namespace |-> 7, user |-> 8]

\* 'time': float(values[3])
TimeField == 4
MinFields == 8

\* variant: the length tests are each one too large
OptionalFields_OffByOne(v, toks) ==
    IF v # "figure7" THEN {}
    ELSE (IF Len(toks) > 9 THEN {"rs_shard_id"} ELSE {})
         \cup (IF Len(toks) > 10 THEN {"op_count"} ELSE {})

\* "Add additional fields if present" (Figures/figure7 only)
OptionalFields(v, toks) ==
    IF v # "figure7" THEN {}
    ELSE (IF Len(toks) > 8 THEN {"rs_shard_id"} ELSE {})
         \cup (IF Len(toks) > 9 THEN {"op_count"} ELSE {})
OptionalIndex(key) == IF key = "rs_shard_id" THEN 9 ELSE 10

\* Does the body of the try raise?  (only evaluated when len(values) >= 8)
Raises(v, toks) ==
    \/ \E key \in DOMAIN IntFields(v) : ~IntOk(toks[IntFields(v)[key]])
    \/ ~FloatOk(toks[TimeField])
    \/ \E key \in OptionalFields(v, toks) : ~IntOk(toks[OptionalIndex(key)])

\* The entry dict built from a line whose conversions all succeed
EntryOf(v, toks) ==
    [key \in DOMAIN IntFields(v) \cup {"time"} \cup OptionalFields(v, toks) |->
        IF key = "time" THEN FloatVal(toks[TimeField])
        ELSE IF key \in DOMAIN IntFields(v) THEN IntVal(toks[IntFields(v)[key]])
        ELSE IntVal(toks[OptionalIndex(key)])]

\* What one pass of the loop body does with a line
Outcome(v, line) ==
    IF line.comment \/ line.toks = <<>> THEN "comment"
    ELSE IF Len(line.toks) < MinFields THEN "short"
    ELSE IF Raises(v, line.toks) THEN "error"
    ELSE "entry"

\* variant: only the except branch counts, the comment/blank branch does not
CountsAsSkipped_ErrorsOnly(outcome) == outcome = "error"

\* skipped_lines += 1 happens on the comment/blank branch and in the except
CountsAsSkipped(outcome) == outcome \in {"comment", "error"}

\* np.percentile is not being exercised on its own
QIdle ==
    /\ perc_input = <<>> /\ perc_perm = <<>> /\ perc_of_input = <<>>
    /\ perc_of_perm = <<>> /\ qpc = "idle"

\* no binner is running
BIdle ==
    /\ bvariant = "none" /\ num_bins = 0 /\ alpha_bins = <<>> /\ bi = 0
    /\ bin_indices = <<>> /\ binned_alpha = <<>> /\ binned_tau = <<>>
    /\ binned_peak_dt = <<>> /\ bin_counts = <<>> /\ bpc = "idle"

\* three empty buckets: E0, E1, E2
InitialSchemes ==
    [s \in 0..2 |-> [name |-> <<"E0", "E1", "E2">>[s + 1], hits |-> 0, total |-> 0]]

\* calculate_hit_rates is not running
HIdle ==
    /\ hit_trace_data = <<>> /\ pipeline_requests = <<>> /\ pipeline_order = <<>>
    /\ hti = 0 /\ hgi = 0 /\ hri = 0 /\ schemes = InitialSchemes /\ si = 0
    /\ hit_rates = <<>> /\ scheme_names = <<>> /\ hit_result = "pending" /\ hpc = "idle"

\* `scheme_metrics = {scheme: [] for scheme in eviction_schemes}`
NoSchemeMetrics == [s \in 0..2 |-> <<>>]

\* the scheme averaging of calculate_peak_dt_metrics is not running
SIdle ==
    /\ scheme_metrics = NoSchemeMetrics /\ fi = 0 /\ avg_peak_dts = <<>>
    /\ scheme_labels = <<>> /\ scheme_result = "pending"

\* no main is running
MIdle ==
    /\ script = "none" /\ trace_files = 0 /\ plotted = FALSE
    /\ main_outcome = "running" /\ mpc = "idle"

\* the size analysis of Figures/figure4 is not running
ZIdle ==
    /\ size_trace_data = <<>> /\ block_size_requests = <<>> /\ zti = 0
    /\ selected_sizes = <<>> /\ zi = 0 /\ cache_sizes = <<>>
    /\ size_peak_dt_values = <<>> /\ sizes_result = "pending" /\ zpc = "idle"

\* calculate_median_dt_metrics is not running
WIdle ==
    /\ window_trace_data = <<>> /\ all_requests = <<>> /\ time_bins = <<>> /\ wi = 0
    /\ window_requests = <<>> /\ timestamps = <<>> /\ median_disk_head_times = <<>>
    /\ request_counts = <<>> /\ wpc = "idle"

LIdle == SIdle /\ MIdle /\ ZIdle /\ WIdle

\* none of the later components is running
XIdle == QIdle /\ BIdle /\ HIdle /\ LIdle

\* the analyzer is not running
AIdle ==
    /\ trace_data = <<>> /\ avariant = "none" /\ block_requests = <<>>
    /\ key_order = <<>> /\ ti = 0 /\ gi = 0 /\ deltas = <<>>
    /\ inter_arrival_times = <<>> /\ protected_caps = <<>> /\ tau_values = <<>>
    /\ alpha_tti_values = <<>> /\ peak_dt_values = <<>> /\ apc = "idle"

PInit ==
    /\ AIdle
    /\ XIdle
    /\ file \in SeqsUpTo(Lines, MaxLines)
    /\ pvariant \in PVariants
    /\ max_entries \in (IF Capped(pvariant) THEN 1..MaxCap ELSE {0})
    /\ pos = 0
    /\ data = <<>>
    /\ skipped_lines = 0
    /\ entry_count = 0
    /\ ppc = "reading"

\* variant: the cap test uses > instead of >=
CapReached_OffByOne == Capped(pvariant) /\ entry_count > max_entries

\* `entry_count >= max_entries`
CapReached == Capped(pvariant) /\ entry_count >= max_entries

\* variant: the try encloses the loop, so the first conversion error ends it
ReadLine_AbortOnError ==
    /\ ppc = "reading"
    /\ pos < Len(file)
    /\ ~CapReached
    /\ LET line == file[pos + 1]
           outcome == Outcome(pvariant, line)
       IN /\ pos' = pos + 1
          /\ skipped_lines' = IF CountsAsSkipped(outcome) THEN skipped_lines + 1
                              ELSE skipped_lines
          /\ data' = IF outcome = "entry" THEN Append(data, EntryOf(pvariant, line.toks))
                     ELSE data
          /\ entry_count' = IF outcome = "entry" /\ Capped(pvariant) THEN entry_count + 1
                            ELSE entry_count
          /\ ppc' = IF outcome = "error" THEN "done" ELSE ppc
    /\ UNCHANGED <<file, pvariant, max_entries, avars, xvars>>

\* one iteration of `for line in f:` that gets past the cap test
ReadLine ==
    /\ ppc = "reading"
    /\ pos < Len(file)
    /\ ~CapReached
    /\ LET line == file[pos + 1]
           outcome == Outcome(pvariant, line)
       IN /\ pos' = pos + 1
          /\ skipped_lines' = IF CountsAsSkipped(outcome) THEN skipped_lines + 1
                              ELSE skipped_lines
          /\ data' = IF outcome = "entry" THEN Append(data, EntryOf(pvariant, line.toks))
                     ELSE data
          /\ entry_count' = IF outcome = "entry" /\ Capped(pvariant) THEN entry_count + 1
                            ELSE entry_count
    /\ UNCHANGED <<file, pvariant, max_entries, ppc, avars, xvars>>

\* `if entry_count >= max_entries: break`
BreakAtCap ==
    /\ ppc = "reading"
    /\ pos < Len(file)
    /\ CapReached
    /\ ppc' = "done"
    /\ UNCHANGED <<file, pos, data, skipped_lines, entry_count, pvariant, max_entries, avars, xvars>>

\* the file iterator is exhausted; return data
EndOfFile ==
    /\ ppc = "reading"
    /\ pos = Len(file)
    /\ ppc' = "done"
    /\ UNCHANGED <<file, pos, data, skipped_lines, entry_count, pvariant, max_entries, avars, xvars>>

PNext == ReadLine \/ BreakAtCap \/ EndOfFile

SpecParse == PInit /\ [][PNext]_vars

\* ------------------------------------------------------------------------
\* The inter-arrival analyzers:
\*   "figure6"  Figures/figure6 calculate_protected_cap_metrics (per pipeline)
\*   "figure5"  scripts/figure5 calculate_metrics + process_single_block (per block)
\*   "figure7"  Figures/figure7 calculate_metrics, up to the binning (alpha_tti)
AVariants == {"figure5", "figure6", "figure7"}

\* (block_id, pipeline) of the enumerated entries, and their 'time' in ms
Sources == {<<1, 0>>, <<1, 3>>, <<2, 0>>}
Times == {10000, 10050, 10200, 30050}
EventKinds == {[block_id |-> s[1], pipeline |-> s[2], time |-> t] : s \in Sources, t \in Times}

\* a long trace of one block, latest entry first
LongScales == {0, 10, 1000}
LongTrace(n, q) ==
    [i \in 1..n |-> [block_id |-> 1, pipeline |-> 0, time |-> 10000 + q * (n - i) * (n - i)]]
\* a trace of one block whose entries arrive at a constant pace
SteadyPaces == {50, 20000}
SteadyTrace(n, pace) ==
    [i \in 1..n |-> [block_id |-> 1, pipeline |-> 0, time |-> 10000 + pace * (i - 1)]]
Traces ==
    SeqsUpTo(EventKinds, MaxEvents)
    \cup {LongTrace(n, q) : n \in 19..MaxLong, q \in LongScales}
    \cup {SteadyTrace(n, pace) : n \in 2..MaxLong, pace \in SteadyPaces}

\* entry['pipeline'] or entry['block_id'], the key of the grouping dict
KeyOf(v, e) == IF v \in {"figure1", "figure6"} THEN e.pipeline ELSE e.block_id

\* variant: an entry goes before the entries of equal time already placed
RECURSIVE InsertByTime_TiesFirst(_, _)
InsertByTime_TiesFirst(sorted, e) ==
    IF sorted = <<>> THEN <<e>>
    ELSE IF sorted[Len(sorted)].time < e.time THEN Append(sorted, e)
    ELSE Append(InsertByTime_TiesFirst(SubSeq(sorted, 1, Len(sorted) - 1), e),
                sorted[Len(sorted)])

\* requests.sort(key=lambda x: x['time']) : list.sort is stable
RECURSIVE InsertByTime(_, _)
InsertByTime(sorted, e) ==
    IF sorted = <<>> THEN <<e>>
    ELSE IF sorted[Len(sorted)].time <= e.time THEN Append(sorted, e)
    ELSE Append(InsertByTime(SubSeq(sorted, 1, Len(sorted) - 1), e), sorted[Len(sorted)])
RECURSIVE SortByTime(_)
SortByTime(requests) ==
    IF requests = <<>> THEN <<>>
    ELSE InsertByTime(SortByTime(SubSeq(requests, 1, Len(requests) - 1)),
                      requests[Len(requests)])

\* the ascending sort np.percentile applies to its argument
RECURSIVE InsertInt(_, _)
InsertInt(sorted, x) ==
    IF sorted = <<>> THEN <<x>>
    ELSE IF sorted[Len(sorted)] <= x THEN Append(sorted, x)
    ELSE Append(InsertInt(SubSeq(sorted, 1, Len(sorted) - 1), x), sorted[Len(sorted)])
RECURSIVE SortInts(_)
SortInts(xs) ==
    IF xs = <<>> THEN <<>>
    ELSE InsertInt(SortInts(SubSeq(xs, 1, Len(xs) - 1)), xs[Len(xs)])

\* `for i in range(1, min(20, len(requests)))` : "Limit to first 20 requests"
DeltaLimit == 20
\* `if 0 < delta < 20000`
OutlierCeiling == 20000

\* variant: the loop runs over the whole group in every script
LoopLen_NoLimit(v, n) == n

\* range(1, ...) of the delta loop: the number of requests it looks at
LoopLen(v, n) == IF v = "figure5" /\ DeltaLimit < n THEN DeltaLimit ELSE n

\* (requests[i]['time'] - requests[i-1]['time']) * 1000, times being held in ms
AllDeltas(v, sorted) ==
    [i \in 1..(LoopLen(v, Len(sorted)) - 1) |-> sorted[i + 1].time - sorted[i].time]

\* variant: the ceiling test is <= instead of <
Retained_CeilingInclusive(v, delta) ==
    IF v = "figure7" THEN TRUE ELSE 0 < delta /\ delta <= OutlierCeiling

\* variant: the floor test is <= instead of <
Retained_ZeroInclusive(v, delta) ==
    IF v = "figure7" THEN TRUE ELSE 0 <= delta /\ delta < OutlierCeiling

\* the test that guards inter_arrival_times.append(delta)
Retained(v, delta) == IF v = "figure7" THEN TRUE ELSE 0 < delta /\ delta < OutlierCeiling

KeptDeltas(v, ds) == SelectSeq(ds, LAMBDA d : Retained(v, d))

RECURSIVE SumSeq(_)
SumSeq(xs) == IF xs = <<>> THEN 0 ELSE xs[1] + SumSeq(Tail(xs))

\* exact rationals num/den with den > 0
Rat(n, d) == [num |-> n, den |-> d]

\* variant: the sum, not divided by the count
Mean_SumOnly(xs) == Rat(SumSeq(xs), 1)

\* np.mean(xs)
Mean(xs) == Rat(SumSeq(xs), Len(xs))

\* variant: the maximum instead of the interpolated 95th percentile
Percentile95_Max(xs) == Rat(20 * SortInts(xs)[Len(xs)], 20)

\* variant: interpolates with the upper neighbour itself, not its distance
Percentile95_NoSubtract(xs) ==
    LET s == SortInts(xs)
        h20 == (Len(xs) - 1) * 19
        lo == h20 \div 20
        fr == h20 % 20
    IN IF fr = 0 THEN Rat(20 * s[lo + 1], 20)
       ELSE Rat(20 * s[lo + 1] + fr * s[lo + 2], 20)

\* variant: indexes the list as given, without sorting it first
Percentile95_NoSort(xs) ==
    LET h20 == (Len(xs) - 1) * 19
        lo == h20 \div 20
        fr == h20 % 20
    IN IF fr = 0 THEN Rat(20 * xs[lo + 1], 20)
       ELSE Rat(20 * xs[lo + 1] + fr * (xs[lo + 2] - xs[lo + 1]), 20)

\* np.percentile(xs, 95), linear interpolation: with h = (n-1)*95/100 the
\* result is s[floor(h)] + (h - floor(h)) * (s[floor(h)+1] - s[floor(h)]),
\* s the sorted list indexed from 0; (n-1)*19 = 20*floor(h) + 20*frac
Percentile95(xs) ==
    LET s == SortInts(xs)
        h20 == (Len(xs) - 1) * 19
        lo == h20 \div 20
        fr == h20 % 20
    IN IF fr = 0 THEN Rat(20 * s[lo + 1], 20)
       ELSE Rat(20 * s[lo + 1] + fr * (s[lo + 2] - s[lo + 1]), 20)

\* alpha_tti = 1000.0 / avg_inter_arrival if avg_inter_arrival > 0 else 0
AlphaTti(xs) == IF SumSeq(xs) > 0 THEN Rat(1000 * Len(xs), SumSeq(xs)) ELSE Rat(0, 1)

\* a < b for rationals with positive denominators
RatLess(a, b) == a.num * b.den < b.num * a.den
RatOfInt(n) == Rat(n, 1)

\* `if 0 < alpha_tti < 20 and 0 < peak_dt < 10000`
AlphaCeiling == 20
PeakCeiling == 10000
\* variant: the bounds themselves pass
PassesOutlierFilter_Inclusive(alpha, peak) ==
    /\ ~RatLess(alpha, RatOfInt(0)) /\ ~RatLess(RatOfInt(AlphaCeiling), alpha)
    /\ ~RatLess(peak, RatOfInt(0)) /\ ~RatLess(RatOfInt(PeakCeiling), peak)

PassesOutlierFilter(alpha, peak) ==
    /\ RatLess(RatOfInt(0), alpha) /\ RatLess(alpha, RatOfInt(AlphaCeiling))
    /\ RatLess(RatOfInt(0), peak) /\ RatLess(peak, RatOfInt(PeakCeiling))

\* the parser is not running
PIdle ==
    /\ file = <<>> /\ pos = 0 /\ data = <<>> /\ skipped_lines = 0 /\ entry_count = 0
    /\ pvariant = "none" /\ max_entries = 0 /\ ppc = "idle"

AInit ==
    /\ PIdle
    /\ XIdle
    /\ trace_data \in Traces
    /\ avariant \in AVariants
    /\ block_requests = <<>>
    /\ key_order = <<>>
    /\ ti = 0
    /\ gi = 0
    /\ deltas = <<>>
    /\ inter_arrival_times = <<>>
    /\ protected_caps = <<>>
    /\ tau_values = <<>>
    /\ alpha_tti_values = <<>>
    /\ peak_dt_values = <<>>
    /\ apc = "grouping"

\* variant: the entry replaces the key's list
DictAppend_Overwrite(dict, key, entry) ==
    [k \in DOMAIN dict \cup {key} |-> IF k = key THEN <<entry>> ELSE dict[k]]

\* the dict after block_requests[key].append(entry)
DictAppend(dict, key, entry) ==
    IF key \in DOMAIN dict THEN [dict EXCEPT ![key] = Append(@, entry)]
    ELSE [k \in DOMAIN dict \cup {key} |-> IF k = key THEN <<entry>> ELSE dict[k]]

\* one iteration of `for entry in trace_data:`
GroupEntry ==
    /\ apc = "grouping"
    /\ ti < Len(trace_data)
    /\ LET entry == trace_data[ti + 1]
           key == KeyOf(avariant, entry)
       IN /\ block_requests' = DictAppend(block_requests, key, entry)
          /\ key_order' = IF key \in DOMAIN block_requests THEN key_order
                          ELSE Append(key_order, key)
    /\ ti' = ti + 1
    /\ UNCHANGED <<trace_data, avariant, gi, deltas, inter_arrival_times, protected_caps,
                   tau_values, alpha_tti_values, peak_dt_values, apc, pvars, xvars>>

\* the grouping loop is over
GroupingDone ==
    /\ apc = "grouping"
    /\ ti = Len(trace_data)
    /\ apc' = "metrics"
    /\ UNCHANGED <<trace_data, avariant, block_requests, key_order, ti, gi, deltas,
                   inter_arrival_times, protected_caps, tau_values, alpha_tti_values,
                   peak_dt_values, pvars, xvars>>

\* variant: the sort reaches every list of the dict
SortInPlace_EveryGroup(dict, key) == [k \in DOMAIN dict |-> SortByTime(dict[k])]

\* the dict after requests.sort(...), requests being the list stored under key
SortInPlace(dict, key) == [dict EXCEPT ![key] = SortByTime(dict[key])]

\* one iteration of `for key, requests in block_requests.items():`
ProcessGroup ==
    /\ apc = "metrics"
    /\ gi < Len(key_order)
    /\ gi' = gi + 1
    /\ LET key == key_order[gi + 1]
           requests == block_requests[key]
           sorted == SortByTime(requests)
           ds == AllDeltas(avariant, sorted)
           kept == KeptDeltas(avariant, ds)
           peak == Percentile95(kept)
       IN IF Len(requests) < 2
          THEN \* continue / return None
               /\ deltas' = <<>>
               /\ inter_arrival_times' = <<>>
               /\ UNCHANGED <<block_requests, protected_caps, tau_values,
                              alpha_tti_values, peak_dt_values>>
          ELSE /\ block_requests' = SortInPlace(block_requests, key)
               /\ deltas' = ds
               /\ inter_arrival_times' = kept
               /\ IF kept = <<>>
                  THEN UNCHANGED <<protected_caps, tau_values, alpha_tti_values,
                                   peak_dt_values>>
                  ELSE CASE avariant = "figure6" ->
                              /\ protected_caps' = Append(protected_caps, key)
                              /\ peak_dt_values' = Append(peak_dt_values, peak)
                              /\ UNCHANGED <<tau_values, alpha_tti_values>>
                         [] avariant = "figure5" ->
                              /\ tau_values' = Append(tau_values, Mean(kept))
                              /\ peak_dt_values' = Append(peak_dt_values, peak)
                              /\ UNCHANGED <<protected_caps, alpha_tti_values>>
                         [] avariant = "figure7" ->
                              IF PassesOutlierFilter(AlphaTti(kept), peak)
                              THEN /\ alpha_tti_values' = Append(alpha_tti_values, AlphaTti(kept))
                                   /\ peak_dt_values' = Append(peak_dt_values, peak)
                                   /\ UNCHANGED <<protected_caps, tau_values>>
                              ELSE UNCHANGED <<protected_caps, tau_values,
                                               alpha_tti_values, peak_dt_values>>
    /\ UNCHANGED <<trace_data, avariant, key_order, ti, apc, pvars, xvars>>

\* every group has been visited; the value lists are returned
MetricsDone ==
    /\ apc = "metrics"
    /\ gi = Len(key_order)
    /\ apc' = "done"
    /\ UNCHANGED <<trace_data, avariant, block_requests, key_order, ti, gi, deltas,
                   inter_arrival_times, protected_caps, tau_values, alpha_tti_values,
                   peak_dt_values, pvars, xvars>>

ANext == GroupEntry \/ GroupingDone \/ ProcessGroup \/ MetricsDone

SpecAnalyze == AInit /\ [][ANext]_vars

\* ------------------------------------------------------------------------
\* np.percentile(inter_arrival_times, 95) applied to a list and to a
\* reordering of it
DeltaVals == {50, 150, 200, 19850}
NonEmptyLists == SeqsUpTo(DeltaVals, MaxDeltas) \ {<<>>}

\* xs read through the index permutation f
Reorder(xs, f) == [i \in 1..Len(xs) |-> xs[f[i]]]

QInit ==
    /\ PIdle
    /\ AIdle
    /\ BIdle
    /\ HIdle
    /\ LIdle
    /\ perc_input \in NonEmptyLists
    /\ perc_perm = <<>>
    /\ perc_of_input = <<>>
    /\ perc_of_perm = <<>>
    /\ qpc = "input"

\* the caller hands the same values over in another order
Permute ==
    /\ qpc = "input"
    /\ \E f \in Permutations(1..Len(perc_input)) : perc_perm' = Reorder(perc_input, f)
    /\ qpc' = "permuted"
    /\ UNCHANGED <<perc_input, perc_of_input, perc_of_perm, pvars, avars, bvars, hvars, lvars>>

\* peak_dt = np.percentile(inter_arrival_times, 95), for both lists
ApplyPercentile ==
    /\ qpc = "permuted"
    /\ perc_of_input' = Percentile95(perc_input)
    /\ perc_of_perm' = Percentile95(perc_perm)
    /\ qpc' = "done"
    /\ UNCHANGED <<perc_input, perc_perm, pvars, avars, bvars, hvars, lvars>>

QNext == Permute \/ ApplyPercentile

SpecPercentile == QInit /\ [][QNext]_vars

\* ------------------------------------------------------------------------
\* The binners:
\*   "figure7"  Figures/figure7 calculate_metrics, from "Bin the data" on
\*   "figure5"  scripts/figure5 calculate_binned_metrics
BVariants == {"figure5", "figure7"}

RatLeq(a, b) == a.num * b.den <= b.num * a.den
RatEq(a, b) == a.num * b.den = b.num * a.den
\* the same rational in lowest terms
RECURSIVE Gcd(_, _)
Gcd(a, b) == IF b = 0 THEN a ELSE Gcd(b, a % b)
Abs(n) == IF n < 0 THEN 0 - n ELSE n
Lowest(n, d) == LET g == Gcd(Abs(n), d) IN Rat(n \div g, d \div g)
RatAdd(a, b) == Lowest(a.num * b.den + b.num * a.den, a.den * b.den)
RatSub(a, b) == Lowest(a.num * b.den - b.num * a.den, a.den * b.den)
\* a * n / d
RatScale(a, n, d) == Lowest(a.num * n, a.den * d)

\* min(values), max(values)
RECURSIVE RatMinSeq(_)
RatMinSeq(xs) ==
    IF Len(xs) = 1 THEN xs[1]
    ELSE LET m == RatMinSeq(Tail(xs)) IN IF RatLeq(xs[1], m) THEN xs[1] ELSE m
RECURSIVE RatMaxSeq(_)
RatMaxSeq(xs) ==
    IF Len(xs) = 1 THEN xs[1]
    ELSE LET m == RatMaxSeq(Tail(xs)) IN IF RatLess(m, xs[1]) THEN xs[1] ELSE m

RECURSIVE RatSumSeq(_)
RatSumSeq(xs) == IF xs = <<>> THEN Rat(0, 1) ELSE RatAdd(xs[1], RatSumSeq(Tail(xs)))

\* np.mean of a non-empty array
RatMean(xs) == RatScale(RatSumSeq(xs), 1, Len(xs))

RECURSIVE RatInsert(_, _)
RatInsert(sorted, x) ==
    IF sorted = <<>> THEN <<x>>
    ELSE IF RatLeq(sorted[Len(sorted)], x) THEN Append(sorted, x)
    ELSE Append(RatInsert(SubSeq(sorted, 1, Len(sorted) - 1), x), sorted[Len(sorted)])
RECURSIVE RatSort(_)
RatSort(xs) ==
    IF xs = <<>> THEN <<>>
    ELSE RatInsert(RatSort(SubSeq(xs, 1, Len(xs) - 1)), xs[Len(xs)])

\* variant: the mean instead of the median
RatMedian_Mean(xs) == RatMean(xs)

\* np.median of a non-empty array: the middle value, or the mean of the two
\* middle values
RatMedian(xs) ==
    LET s == RatSort(xs)
        n == Len(xs)
    IN IF n % 2 = 1 THEN s[(n + 1) \div 2]
       ELSE RatScale(RatAdd(s[n \div 2], s[n \div 2 + 1]), 1, 2)

\* np.linspace(lo, hi, num): num evenly spaced points, both ends included
Linspace(lo, hi, num) ==
    IF num = 1 THEN <<lo>>
    ELSE [i \in 1..num |-> RatAdd(lo, RatScale(RatSub(hi, lo), i - 1, num - 1))]

\* np.array(values)[indices]
IndexSeq(n) == [k \in 1..n |-> k]
Pick(values, indices) ==
    LET idx == SelectSeq(IndexSeq(Len(values)), LAMBDA j : j \in indices)
    IN [k \in 1..Len(idx) |-> values[idx[k]]]

\* the x values the running binner bins
BinnedX == IF bvariant = "figure7" THEN alpha_tti_values ELSE tau_values

\* (values >= bin_start) & (values < bin_end)
InBin(x, bin_start, bin_end) == RatLeq(bin_start, x) /\ RatLess(x, bin_end)
Members(xs, bin_start, bin_end) ==
    {j \in 1..Len(xs) : InBin(xs[j], bin_start, bin_end)}

\* the number of points handed to np.linspace
EdgeCount(v, n) == IF v = "figure7" THEN n ELSE n + 1

\* variant: as many pairs as bins are binned too
TakesBinningPath_AtLeast(v, n, b) == IF v = "figure7" THEN n >= b ELSE TRUE

\* `if len(alpha_tti_values) > num_bins:` ; scripts/figure5 has no such test
TakesBinningPath(v, n, b) == IF v = "figure7" THEN n > b ELSE TRUE

\* the pairs handed to a binner
XVals == {Rat(2, 1), Rat(4, 1), Rat(20, 3), Rat(10, 1)}
YVals == {Rat(1000, 20), Rat(2900, 20)}
PairKinds == {[x |-> x, y |-> y] : x \in XVals, y \in YVals}
Spreads == {0, 1, 2}
ManyPairs(n, q) ==
    [i \in 1..n |-> [x |-> Rat(2 + q * ((i * i) % 5), 1), y |-> Rat(20 * (50 + ((3 * i) % 7)), 20)]]
NumBinsVals == {2, 3, 5}
PairLists ==
    SeqsUpTo(PairKinds, MaxPairs) \cup {ManyPairs(n, q) : n \in 6..MaxMany, q \in Spreads}
XsOf(pairs) == [i \in 1..Len(pairs) |-> pairs[i].x]
YsOf(pairs) == [i \in 1..Len(pairs) |-> pairs[i].y]

BInit ==
    /\ PIdle
    /\ QIdle
    /\ HIdle
    /\ LIdle
    /\ bvariant \in BVariants
    /\ num_bins \in NumBinsVals
    /\ \E pairs \in PairLists :
          /\ bvariant = "figure5" => pairs # <<>>
          /\ alpha_tti_values = (IF bvariant = "figure7" THEN XsOf(pairs) ELSE <<>>)
          /\ tau_values = (IF bvariant = "figure5" THEN XsOf(pairs) ELSE <<>>)
          /\ peak_dt_values = YsOf(pairs)
    /\ trace_data = <<>> /\ avariant = "none" /\ block_requests = <<>>
    /\ key_order = <<>> /\ ti = 0 /\ gi = 0 /\ deltas = <<>>
    /\ inter_arrival_times = <<>> /\ protected_caps = <<>> /\ apc = "done"
    /\ alpha_bins = <<>>
    /\ bi = 0
    /\ bin_indices = <<>>
    /\ binned_alpha = <<>>
    /\ binned_tau = <<>>
    /\ binned_peak_dt = <<>>
    /\ bin_counts = <<>>
    /\ bpc = "start"

\* the else branch: return the values as they are, with np.ones(len(...))
PassThrough ==
    /\ bpc = "start"
    /\ ~TakesBinningPath(bvariant, Len(BinnedX), num_bins)
    /\ binned_alpha' = BinnedX
    /\ binned_peak_dt' = peak_dt_values
    /\ bin_counts' = [i \in 1..Len(BinnedX) |-> 1]
    /\ bpc' = "done"
    /\ UNCHANGED <<bvariant, num_bins, alpha_bins, bi, bin_indices, binned_tau,
                   pvars, avars, qvars, hvars, lvars>>

\* "Create bins": np.linspace over [min, max]; scripts/figure5 also computes
\* every bin center here
CreateBins ==
    /\ bpc = "start"
    /\ TakesBinningPath(bvariant, Len(BinnedX), num_bins)
    /\ LET edges == Linspace(RatMinSeq(BinnedX), RatMaxSeq(BinnedX),
                             EdgeCount(bvariant, num_bins))
       IN /\ alpha_bins' = edges
          /\ binned_alpha' =
                IF bvariant = "figure5"
                THEN [i \in 1..(Len(edges) - 1) |->
                         RatScale(RatAdd(edges[i], edges[i + 1]), 1, 2)]
                ELSE <<>>
    /\ bpc' = "binning"
    /\ UNCHANGED <<bvariant, num_bins, bi, bin_indices, binned_tau, binned_peak_dt,
                   bin_counts, pvars, avars, qvars, hvars, lvars>>

\* variant: every bin is emitted, an empty one as a zero record
BinStep_ZeroForEmpty ==
    /\ bpc = "binning"
    /\ bi < Len(alpha_bins) - 1
    /\ bi' = bi + 1
    /\ LET bin_start == alpha_bins[bi + 1]
           bin_end == alpha_bins[bi + 2]
           indices == Members(BinnedX, bin_start, bin_end)
       IN /\ bin_indices' = Append(bin_indices, indices)
          /\ binned_tau' = Append(binned_tau, Rat(0, 1))
          /\ binned_alpha' =
                IF bvariant = "figure7"
                THEN Append(binned_alpha, RatScale(RatAdd(bin_start, bin_end), 1, 2))
                ELSE binned_alpha
          /\ binned_peak_dt' =
                Append(binned_peak_dt,
                       IF indices # {} THEN RatMedian(Pick(peak_dt_values, indices))
                       ELSE Rat(0, 1))
          /\ bin_counts' =
                IF bvariant = "figure7" THEN Append(bin_counts, Cardinality(indices))
                ELSE bin_counts
    /\ UNCHANGED <<bvariant, num_bins, alpha_bins, bpc, pvars, avars, qvars, hvars, lvars>>

\* one iteration of the bin loop
BinStep ==
    /\ bpc = "binning"
    /\ bi < Len(alpha_bins) - 1
    /\ bi' = bi + 1
    /\ LET bin_start == alpha_bins[bi + 1]
           bin_end == alpha_bins[bi + 2]
           bin_center == RatScale(RatAdd(bin_start, bin_end), 1, 2)
           indices == Members(BinnedX, bin_start, bin_end)
       IN /\ bin_indices' = Append(bin_indices, indices)
          /\ IF bvariant = "figure7"
             THEN /\ binned_tau' = binned_tau
                  /\ IF indices # {}
                     THEN /\ binned_alpha' = Append(binned_alpha, bin_center)
                          /\ binned_peak_dt' =
                                Append(binned_peak_dt, RatMedian(Pick(peak_dt_values, indices)))
                          /\ bin_counts' = Append(bin_counts, Cardinality(indices))
                     ELSE UNCHANGED <<binned_alpha, binned_peak_dt, bin_counts>>
             ELSE /\ UNCHANGED <<binned_alpha, bin_counts>>
                  /\ IF indices # {}
                     THEN /\ binned_tau' = Append(binned_tau, RatMean(Pick(tau_values, indices)))
                          /\ binned_peak_dt' =
                                Append(binned_peak_dt, RatMean(Pick(peak_dt_values, indices)))
                     ELSE /\ binned_tau' = Append(binned_tau, Rat(0, 1))
                          /\ binned_peak_dt' = Append(binned_peak_dt, Rat(0, 1))
    /\ UNCHANGED <<bvariant, num_bins, alpha_bins, bpc, pvars, avars, qvars, hvars, lvars>>

\* the bin loop is over; the binned arrays are returned
BinningDone ==
    /\ bpc = "binning"
    /\ bi = Len(alpha_bins) - 1
    /\ bpc' = "done"
    /\ UNCHANGED <<bvariant, num_bins, alpha_bins, bi, bin_indices, binned_alpha,
                   binned_tau, binned_peak_dt, bin_counts, pvars, avars, qvars, hvars, lvars>>

BNext == PassThrough \/ CreateBins \/ BinStep \/ BinningDone

SpecBin == BInit /\ [][BNext]_vars

\* ------------------------------------------------------------------------
\* scripts/figure3 calculate_hit_rates
Pipelines == {-1, 0, 1, 3}
HitFields == {0, 1, 2}
Requests == {[pipeline |-> p, hit |-> h] : p \in Pipelines, h \in HitFields}
HitTraces == SeqsUpTo(Requests, MaxRequests)

\* `scheme_id = pipeline % 3`; Python's % is never negative for a positive modulus
SchemeCount == 3
\* variant: two buckets instead of three
SchemeOf_TwoBuckets(pipeline) == pipeline % 2

SchemeOf(pipeline) == pipeline % SchemeCount

\* variant: any non-zero hit field counts as a hit
IsHit_NonZero(req) == req.hit # 0

\* `if req.get('hit', 0) == 1:`
IsHit(req) == req.hit = 1

\* variant: every bucket is reported
Reported_Always(scheme) == TRUE

\* `if data['total'] > 0:`
Reported(scheme) == scheme.total > 0

HInit ==
    /\ PIdle
    /\ AIdle
    /\ QIdle
    /\ BIdle
    /\ LIdle
    /\ hit_trace_data \in HitTraces
    /\ pipeline_requests = <<>>
    /\ pipeline_order = <<>>
    /\ hti = 0
    /\ hgi = 0
    /\ hri = 0
    /\ schemes = InitialSchemes
    /\ si = 0
    /\ hit_rates = <<>>
    /\ scheme_names = <<>>
    /\ hit_result = "pending"
    /\ hpc = "grouping"

\* one iteration of `for entry in trace_data:`
GroupByPipeline ==
    /\ hpc = "grouping"
    /\ hti < Len(hit_trace_data)
    /\ LET entry == hit_trace_data[hti + 1]
       IN /\ pipeline_requests' = DictAppend(pipeline_requests, entry.pipeline, entry)
          /\ pipeline_order' = IF entry.pipeline \in DOMAIN pipeline_requests
                               THEN pipeline_order
                               ELSE Append(pipeline_order, entry.pipeline)
    /\ hti' = hti + 1
    /\ UNCHANGED <<hit_trace_data, hgi, hri, schemes, si, hit_rates, scheme_names,
                   hit_result, hpc, pvars, avars, qvars, bvars, lvars>>

\* the grouping loop is over
PipelinesGrouped ==
    /\ hpc = "grouping"
    /\ hti = Len(hit_trace_data)
    /\ hpc' = "tallying"
    /\ UNCHANGED <<hit_trace_data, pipeline_requests, pipeline_order, hti, hgi, hri,
                   schemes, si, hit_rates, scheme_names, hit_result, pvars, avars,
                   qvars, bvars, lvars>>

\* one iteration of `for req in requests:` within
\* `for pipeline, requests in pipeline_requests.items():`
TallyRequest ==
    /\ hpc = "tallying"
    /\ hgi < Len(pipeline_order)
    /\ LET pipeline == pipeline_order[hgi + 1]
           requests == pipeline_requests[pipeline]
           scheme_id == SchemeOf(pipeline)
           req == requests[hri + 1]
       IN /\ schemes' = [schemes EXCEPT
                            ![scheme_id].total = @ + 1,
                            ![scheme_id].hits = IF IsHit(req) THEN @ + 1 ELSE @]
          /\ IF hri + 1 = Len(requests)
             THEN hgi' = hgi + 1 /\ hri' = 0
             ELSE hgi' = hgi /\ hri' = hri + 1
    /\ UNCHANGED <<hit_trace_data, pipeline_requests, pipeline_order, hti, si, hit_rates,
                   scheme_names, hit_result, hpc, pvars, avars, qvars, bvars, lvars>>

\* every pipeline is tallied
TallyDone ==
    /\ hpc = "tallying"
    /\ hgi = Len(pipeline_order)
    /\ hpc' = "reporting"
    /\ UNCHANGED <<hit_trace_data, pipeline_requests, pipeline_order, hti, hgi, hri,
                   schemes, si, hit_rates, scheme_names, hit_result, pvars, avars,
                   qvars, bvars, lvars>>

\* one iteration of `for scheme_id, data in schemes.items():`; the division
\* raises ZeroDivisionError out of the function when total is 0
ReportScheme ==
    /\ hpc = "reporting"
    /\ si < SchemeCount
    /\ LET scheme == schemes[si]
       IN IF Reported(scheme)
          THEN IF scheme.total = 0
               THEN /\ hit_result' = "ZeroDivisionError"
                    /\ hpc' = "done"
                    /\ UNCHANGED <<si, hit_rates, scheme_names>>
               ELSE /\ hit_rates' = Append(hit_rates, Rat(scheme.hits, scheme.total))
                    /\ scheme_names' = Append(scheme_names, scheme.name)
                    /\ si' = si + 1
                    /\ UNCHANGED <<hit_result, hpc>>
          ELSE /\ si' = si + 1
               /\ UNCHANGED <<hit_rates, scheme_names, hit_result, hpc>>
    /\ UNCHANGED <<hit_trace_data, pipeline_requests, pipeline_order, hti, hgi, hri,
                   schemes, pvars, avars, qvars, bvars, lvars>>

\* `if not hit_rates: return None, None` ; `return scheme_names, hit_rates`
ReturnHitRates ==
    /\ hpc = "reporting"
    /\ si = SchemeCount
    /\ hit_result' = IF hit_rates = <<>> THEN "none" ELSE "table"
    /\ hpc' = "done"
    /\ UNCHANGED <<hit_trace_data, pipeline_requests, pipeline_order, hti, hgi, hri,
                   schemes, si, hit_rates, scheme_names, pvars, avars, qvars, bvars, lvars>>

HNext ==
    GroupByPipeline \/ PipelinesGrouped \/ TallyRequest \/ TallyDone \/ ReportScheme
        \/ ReturnHitRates

SpecHit == HInit /\ [][HNext]_vars

\* ------------------------------------------------------------------------
\* scripts/figure1 calculate_peak_dt_metrics: the per-pipeline analyzer
\* ("figure1") followed by the per-scheme average
EvictionSchemes == <<"E0", "E1", "E2">>

\* `scheme_index = pipeline % 3`
SchemeIndex(pipeline) == pipeline % 3

\* variant: the largest peak of the scheme instead of the average
SchemeAverage_Max(peaks) == RatMaxSeq(peaks)

\* np.mean(scheme_metrics[scheme])
SchemeAverage(peaks) == RatMean(peaks)

SchemePipelines == {0, 1, 3}
SchemeEventKinds ==
    {[block_id |-> 1, pipeline |-> p, time |-> t] : p \in SchemePipelines, t \in Times}
SchemeTraces == SeqsUpTo(SchemeEventKinds, MaxEvents)

SInit ==
    /\ PIdle
    /\ XIdle
    /\ trace_data \in SchemeTraces
    /\ avariant = "figure1"
    /\ block_requests = <<>>
    /\ key_order = <<>>
    /\ ti = 0
    /\ gi = 0
    /\ deltas = <<>>
    /\ inter_arrival_times = <<>>
    /\ protected_caps = <<>>
    /\ tau_values = <<>>
    /\ alpha_tti_values = <<>>
    /\ peak_dt_values = <<>>
    /\ apc = "grouping"

\* one iteration of `for pipeline, requests in pipeline_requests.items():`
ProcessPipeline ==
    /\ apc = "metrics"
    /\ avariant = "figure1"
    /\ gi < Len(key_order)
    /\ gi' = gi + 1
    /\ LET pipeline == key_order[gi + 1]
           requests == block_requests[pipeline]
           sorted == SortByTime(requests)
           ds == AllDeltas(avariant, sorted)
           kept == KeptDeltas(avariant, ds)
       IN IF Len(requests) < 2
          THEN /\ deltas' = <<>>
               /\ inter_arrival_times' = <<>>
               /\ UNCHANGED <<block_requests, scheme_metrics>>
          ELSE /\ block_requests' = SortInPlace(block_requests, pipeline)
               /\ deltas' = ds
               /\ inter_arrival_times' = kept
               /\ scheme_metrics' =
                     IF kept = <<>> THEN scheme_metrics
                     ELSE [scheme_metrics EXCEPT
                              ![SchemeIndex(pipeline)] = Append(@, Percentile95(kept))]
    /\ UNCHANGED <<trace_data, avariant, key_order, ti, apc, protected_caps, tau_values,
                   alpha_tti_values, peak_dt_values, fi, avg_peak_dts, scheme_labels,
                   scheme_result, pvars, qvars, bvars, hvars, mvars, zvars, wvars>>

\* every pipeline has been visited
PipelinesDone ==
    /\ apc = "metrics"
    /\ avariant = "figure1"
    /\ gi = Len(key_order)
    /\ apc' = "averaging"
    /\ UNCHANGED <<trace_data, avariant, block_requests, key_order, ti, gi, deltas,
                   inter_arrival_times, protected_caps, tau_values, alpha_tti_values,
                   peak_dt_values, pvars, xvars>>

\* one iteration of `for scheme in eviction_schemes:`
AverageScheme ==
    /\ apc = "averaging"
    /\ fi < Len(EvictionSchemes)
    /\ fi' = fi + 1
    /\ IF scheme_metrics[fi] # <<>>
       THEN /\ avg_peak_dts' = Append(avg_peak_dts, SchemeAverage(scheme_metrics[fi]))
            /\ scheme_labels' = Append(scheme_labels, EvictionSchemes[fi + 1])
       ELSE UNCHANGED <<avg_peak_dts, scheme_labels>>
    /\ UNCHANGED <<scheme_metrics, scheme_result, avars, pvars, qvars, bvars, hvars, mvars, zvars, wvars>>

\* `if not avg_peak_dts: return None, None` ; `return scheme_labels, avg_peak_dts`
ReturnSchemes ==
    /\ apc = "averaging"
    /\ fi = Len(EvictionSchemes)
    /\ scheme_result' = IF avg_peak_dts = <<>> THEN "none" ELSE "table"
    /\ apc' = "done"
    /\ UNCHANGED <<trace_data, avariant, block_requests, key_order, ti, gi, deltas,
                   inter_arrival_times, protected_caps, tau_values, alpha_tti_values,
                   peak_dt_values, scheme_metrics, fi, avg_peak_dts, scheme_labels,
                   pvars, qvars, bvars, hvars, mvars, zvars, wvars>>

SNext ==
    GroupEntry \/ GroupingDone \/ ProcessPipeline \/ PipelinesDone \/ AverageScheme
        \/ ReturnSchemes

SpecScheme == SInit /\ [][SNext]_vars

\* ------------------------------------------------------------------------
\* main of scripts/figure5, Figures/figure6 and Figures/figure7: find the
\* trace files, parse the first, compute the metrics, plot.  The result of
\* parse_trace_file is an input; the metrics are computed by the analyzer
\* and binner steps above.
MainScripts == {"figure5", "figure6", "figure7"}
ParsedTraces == SeqsUpTo(EventKinds, MaxParsed)

\* the num_bins default of calculate_metrics / calculate_binned_metrics
DefaultNumBins == 15

\* `if tau_values is None:` / `if protected_caps is None:` ; the main of
\* Figures/figure7 has no such test
ChecksForNone(v) == v \in {"figure5", "figure6"}

\* the metrics function returned None, None
ReturnedNone == peak_dt_values = <<>>

\* np.argmin(peak_dt_values) in plot_pdf_graph raises ValueError on an empty array
PlotRaises(v, xs) == v = "figure7" /\ xs = <<>>

MInit ==
    /\ PIdle
    /\ AIdle
    /\ QIdle
    /\ BIdle
    /\ HIdle
    /\ SIdle
    /\ ZIdle
    /\ WIdle
    /\ script \in MainScripts
    /\ trace_files \in 0..1
    /\ plotted = FALSE
    /\ main_outcome = "running"
    /\ mpc = "start"

\* `if not trace_files: raise FileNotFoundError(...)`, caught by main's except
NoTraceFiles ==
    /\ mpc = "start"
    /\ trace_files = 0
    /\ main_outcome' = "FileNotFoundError"
    /\ mpc' = "returned"
    /\ UNCHANGED <<script, trace_files, plotted, pvars, avars, qvars, bvars, hvars, svars, zvars, wvars>>

\* trace_data = parse_trace_file(trace_files[0]) and the call of the metrics function
ParseFirstFile ==
    /\ mpc = "start"
    /\ trace_files > 0
    /\ trace_data' \in ParsedTraces
    /\ avariant' = script
    /\ apc' = "grouping"
    /\ mpc' = "metrics"
    /\ UNCHANGED <<block_requests, key_order, ti, gi, deltas, inter_arrival_times,
                   protected_caps, tau_values, alpha_tti_values, peak_dt_values,
                   script, trace_files, plotted, main_outcome,
                   pvars, qvars, bvars, hvars, svars, zvars, wvars>>

\* the per-group loop is over: the None test of main, or the call of the binner
AfterMetrics ==
    /\ mpc = "metrics"
    /\ apc = "done"
    /\ IF ChecksForNone(script) /\ ReturnedNone
       THEN /\ main_outcome' = "ValueError: no valid metrics"
            /\ mpc' = "returned"
            /\ UNCHANGED <<bvariant, num_bins, bpc>>
       ELSE IF script = "figure6"
            THEN /\ mpc' = "plot"
                 /\ UNCHANGED <<main_outcome, bvariant, num_bins, bpc>>
            ELSE /\ bvariant' = script
                 /\ num_bins' = DefaultNumBins
                 /\ bpc' = "start"
                 /\ mpc' = "binning"
                 /\ UNCHANGED main_outcome
    /\ UNCHANGED <<script, trace_files, plotted, alpha_bins, bi, bin_indices, binned_alpha,
                   binned_tau, binned_peak_dt, bin_counts, pvars, avars, qvars, hvars, svars, zvars, wvars>>

\* the binner has returned
AfterBinning ==
    /\ mpc = "binning"
    /\ bpc = "done"
    /\ mpc' = "plot"
    /\ UNCHANGED <<script, trace_files, plotted, main_outcome,
                   pvars, avars, qvars, bvars, hvars, svars, zvars, wvars>>

\* the call of the plotting function; what it raises is caught by main's except
Plot ==
    /\ mpc = "plot"
    /\ plotted' = TRUE
    /\ main_outcome' = IF PlotRaises(script, binned_alpha) THEN "ValueError in plot"
                       ELSE "figure saved"
    /\ mpc' = "returned"
    /\ UNCHANGED <<script, trace_files, pvars, avars, qvars, bvars, hvars, svars, zvars, wvars>>

MNext ==
    \/ NoTraceFiles \/ ParseFirstFile
    \/ GroupEntry \/ GroupingDone \/ ProcessGroup \/ MetricsDone
    \/ AfterMetrics
    \/ PassThrough \/ CreateBins \/ BinStep \/ BinningDone
    \/ AfterBinning \/ Plot

SpecMain == MInit /\ [][MNext]_vars

\* ------------------------------------------------------------------------
\* Figures/figure4: analyze_cache_sizes, then calculate_metrics on its result
\* ------------------------------------------------------------------------
\* `size_counts[:8]`
TopSizes == 8

\* 1024 * 1024, the divisor of entry['size']
BytesPerMB == 1048576

\* block_size = entry['size'] / (1024 * 1024) : the exact quotient, in lowest terms
BlockSize(e) == Lowest(e.size, BytesPerMB)

\* the enumerated traces: sizes 1..k half megabytes, size s requested c[s] times;
\* the trace goes through the sizes from the largest down, once per request
\* still owed, and the later requests of a size carry the earlier times
\* an odd size is requested up to three times, an even size up to twice
SizeCounts(s) == IF s % 2 = 1 THEN {1, 2, 3} ELSE {1, 2}
SizeUnit == 524288
SizeSteps == <<0, 50, 200, 30000>>
SizeEntry(s, r) ==
    [block_id |-> s, size |-> s * SizeUnit, time |-> 70000 - r * SizeSteps[(s % 4) + 1]]
SizeRound(c, r) ==
    SelectSeq([i \in 1..Len(c) |-> SizeEntry(Len(c) + 1 - i, r)],
              LAMBDA e : c[e.block_id] >= r)
SizeTrace(c) == SizeRound(c, 1) \o SizeRound(c, 2) \o SizeRound(c, 3)

\* sorted(block_size_requests.keys())
RECURSIVE SortedSizes(_)
SortedSizes(S) ==
    IF S = {} THEN <<>>
    ELSE LET least == CHOOSE x \in S : \A y \in S : RatLeq(x, y)
         IN <<least>> \o SortedSizes(S \ {least})

\* variant: a pair goes before the pairs of equal count already placed
RECURSIVE InsertByCount_TiesFirst(_, _)
InsertByCount_TiesFirst(sorted, p) ==
    IF sorted = <<>> THEN <<p>>
    ELSE IF sorted[Len(sorted)][2] > p[2] THEN Append(sorted, p)
    ELSE Append(InsertByCount_TiesFirst(SubSeq(sorted, 1, Len(sorted) - 1), p),
                sorted[Len(sorted)])

\* size_counts.sort(key=lambda x: x[1], reverse=True) : the sort is stable, so
\* pairs of equal count keep the order they had
RECURSIVE InsertByCount(_, _)
InsertByCount(sorted, p) ==
    IF sorted = <<>> THEN <<p>>
    ELSE IF sorted[Len(sorted)][2] >= p[2] THEN Append(sorted, p)
    ELSE Append(InsertByCount(SubSeq(sorted, 1, Len(sorted) - 1), p), sorted[Len(sorted)])
RECURSIVE SortByCount(_)
SortByCount(pairs) ==
    IF pairs = <<>> THEN <<>>
    ELSE InsertByCount(SortByCount(SubSeq(pairs, 1, Len(pairs) - 1)), pairs[Len(pairs)])

\* the (size, count) pairs in ascending order of size
SizeCountPairs(dict) ==
    LET unique_sizes == SortedSizes(DOMAIN dict)
    IN [i \in 1..Len(unique_sizes) |-> <<unique_sizes[i], Len(dict[unique_sizes[i]])>>]

\* [size for size, count in size_counts[:8]]
SelectedSizes(dict) ==
    LET size_counts == SortByCount(SizeCountPairs(dict))
        n == IF Len(size_counts) < TopSizes THEN Len(size_counts) ELSE TopSizes
    IN [i \in 1..n |-> size_counts[i][1]]

ZInit ==
    /\ PIdle
    /\ AIdle
    /\ QIdle
    /\ BIdle
    /\ HIdle
    /\ SIdle
    /\ MIdle
    /\ WIdle
    /\ \E k \in 0..MaxSizes : \E c \in [1..k -> 1..3] :
          /\ \A s \in 1..k : c[s] \in SizeCounts(s)
          /\ size_trace_data = SizeTrace(c)
    /\ block_size_requests = <<>>
    /\ zti = 0
    /\ selected_sizes = <<>>
    /\ zi = 0
    /\ cache_sizes = <<>>
    /\ size_peak_dt_values = <<>>
    /\ sizes_result = "pending"
    /\ zpc = "grouping"

\* one iteration of `for entry in trace_data:` in analyze_cache_sizes
GroupBySize ==
    /\ zpc = "grouping"
    /\ zti < Len(size_trace_data)
    /\ LET entry == size_trace_data[zti + 1]
       IN block_size_requests' = DictAppend(block_size_requests, BlockSize(entry), entry)
    /\ zti' = zti + 1
    /\ UNCHANGED <<size_trace_data, selected_sizes, zi, cache_sizes, size_peak_dt_values,
                   sizes_result, zpc, pvars, avars, qvars, bvars, hvars, svars, mvars,
                   wvars>>

\* the rest of analyze_cache_sizes: count, sort, take the top sizes, return
SelectSizes ==
    /\ zpc = "grouping"
    /\ zti = Len(size_trace_data)
    /\ selected_sizes' = SelectedSizes(block_size_requests)
    /\ zpc' = "metrics"
    /\ UNCHANGED <<size_trace_data, block_size_requests, zti, zi, cache_sizes,
                   size_peak_dt_values, sizes_result, pvars, avars, qvars, bvars, hvars,
                   svars, mvars, wvars>>

\* one iteration of `for size in selected_sizes:` in calculate_metrics
ProcessSize ==
    /\ zpc = "metrics"
    /\ zi < Len(selected_sizes)
    /\ zi' = zi + 1
    /\ LET size == selected_sizes[zi + 1]
           requests == block_size_requests[size]
           sorted == SortByTime(requests)
           kept == KeptDeltas("figure4", AllDeltas("figure4", sorted))
       IN IF Len(requests) < 2
          THEN UNCHANGED <<block_size_requests, cache_sizes, size_peak_dt_values>>
          ELSE /\ block_size_requests' = SortInPlace(block_size_requests, size)
               /\ IF kept = <<>>
                  THEN UNCHANGED <<cache_sizes, size_peak_dt_values>>
                  ELSE /\ cache_sizes' = Append(cache_sizes, size)
                       /\ size_peak_dt_values' =
                             Append(size_peak_dt_values, Percentile95(kept))
    /\ UNCHANGED <<size_trace_data, zti, selected_sizes, sizes_result, zpc, pvars, avars,
                   qvars, bvars, hvars, svars, mvars, wvars>>

\* `if not cache_sizes: return None, None`, else the two lists
SizesDone ==
    /\ zpc = "metrics"
    /\ zi = Len(selected_sizes)
    /\ sizes_result' = IF cache_sizes = <<>> THEN "none" ELSE "table"
    /\ zpc' = "done"
    /\ UNCHANGED <<size_trace_data, block_size_requests, zti, selected_sizes, zi,
                   cache_sizes, size_peak_dt_values, pvars, avars, qvars, bvars, hvars,
                   svars, mvars, wvars>>

ZNext == GroupBySize \/ SelectSizes \/ ProcessSize \/ SizesDone

SpecSizes == ZInit /\ [][ZNext]_vars

\* ------------------------------------------------------------------------
\* scripts/figure2: calculate_median_dt_metrics
\* ------------------------------------------------------------------------
\* time_window=300 seconds, in ms
TimeWindow == 300000
\* `if len(median_disk_head_times) > 10:` guards the smoothing
SmoothOver == 10

\* the enumerated entries: two blocks, times that are a whole number of
\* windows apart and times that are not
WindowBlocks == {1, 2}
WindowTimes == {10000, 160000, 310000, 460000, 610000}
WindowEventKinds == {[block_id |-> b, time |-> t] : b \in WindowBlocks, t \in WindowTimes}
WindowTraces == SeqsUpTo(WindowEventKinds, MaxWindowed)

\* np.arange(start, stop, step) for step > 0: start + i*step for
\* i = 0 .. ceil((stop - start) / step) - 1, stop itself excluded
Arange(start, stop, step) ==
    LET n == (stop - start + step - 1) \div step
    IN [i \in 1..n |-> start + (i - 1) * step]

\* [r for r in all_requests if start_time <= r['time'] < end_time], as places
InWindow(requests, start_time, end_time) ==
    SelectSeq(IndexSeq(Len(requests)),
              LAMBDA j : start_time <= requests[j].time /\ requests[j].time < end_time)

\* block_requests of one window and the insertion order of its keys
RECURSIVE GroupByBlock(_)
GroupByBlock(requests) ==
    IF requests = <<>> THEN [dict |-> <<>>, order |-> <<>>]
    ELSE LET g == GroupByBlock(SubSeq(requests, 1, Len(requests) - 1))
             req == requests[Len(requests)]
         IN [dict |-> DictAppend(g.dict, req.block_id, req),
             order |-> IF req.block_id \in DOMAIN g.dict THEN g.order
                       ELSE Append(g.order, req.block_id)]

\* inter_arrival_times of one window: block after block, every delta of a
\* block that has two requests or more
RECURSIVE BlockDeltas(_, _)
BlockDeltas(dict, order) ==
    IF order = <<>> THEN <<>>
    ELSE LET requests == dict[order[1]]
         IN (IF Len(requests) < 2 THEN <<>>
             ELSE AllDeltas("figure2", SortByTime(requests)))
            \o BlockDeltas(dict, Tail(order))
WindowDeltas(requests) ==
    LET g == GroupByBlock(requests) IN BlockDeltas(g.dict, g.order)

WInit ==
    /\ PIdle
    /\ AIdle
    /\ QIdle
    /\ BIdle
    /\ HIdle
    /\ SIdle
    /\ MIdle
    /\ ZIdle
    /\ window_trace_data \in WindowTraces
    /\ all_requests = <<>>
    /\ time_bins = <<>>
    /\ wi = 0
    /\ window_requests = <<>>
    /\ timestamps = <<>>
    /\ median_disk_head_times = <<>>
    /\ request_counts = <<>>
    /\ wpc = "start"

\* sort the trace; return three empty lists for an empty trace, otherwise
\* build the window edges
SortRequests ==
    /\ wpc = "start"
    /\ all_requests' = SortByTime(window_trace_data)
    /\ IF window_trace_data = <<>>
       THEN /\ wpc' = "done"
            /\ UNCHANGED time_bins
       ELSE LET min_time == all_requests'[1].time
                max_time == all_requests'[Len(all_requests')].time
            IN /\ time_bins' = Arange(min_time, max_time + TimeWindow, TimeWindow)
               /\ wpc' = "windows"
    /\ UNCHANGED <<window_trace_data, wi, window_requests, timestamps,
                   median_disk_head_times, request_counts, pvars, avars, qvars, bvars,
                   hvars, svars, mvars, zvars>>

\* one iteration of `for i in range(len(time_bins)-1):`
WindowStep ==
    /\ wpc = "windows"
    /\ wi < Len(time_bins) - 1
    /\ wi' = wi + 1
    /\ LET start_time == time_bins[wi + 1]
           end_time == time_bins[wi + 2]
           places == InWindow(all_requests, start_time, end_time)
           inter_arrivals ==
              WindowDeltas([k \in DOMAIN places |-> all_requests[places[k]]])
       IN /\ window_requests' = Append(window_requests, places)
          /\ IF places # <<>> /\ inter_arrivals # <<>>
             THEN /\ timestamps' = Append(timestamps, Lowest(start_time + end_time, 2))
                  /\ median_disk_head_times' =
                        Append(median_disk_head_times,
                               RatMedian([k \in DOMAIN inter_arrivals |->
                                             Rat(inter_arrivals[k], 1)]))
                  /\ request_counts' = Append(request_counts, Len(places))
             ELSE UNCHANGED <<timestamps, median_disk_head_times, request_counts>>
    /\ UNCHANGED <<window_trace_data, all_requests, time_bins, wpc, pvars, avars, qvars,
                   bvars, hvars, svars, mvars, zvars>>

\* every window has been visited: smooth when more than ten windows were
\* emitted (the smoothed values themselves are not computed), and return
WindowsDone ==
    /\ wpc = "windows"
    /\ wi = Len(time_bins) - 1
    /\ wpc' = IF Len(median_disk_head_times) > SmoothOver THEN "smoothed" ELSE "done"
    /\ UNCHANGED <<window_trace_data, all_requests, time_bins, wi, window_requests,
                   timestamps, median_disk_head_times, request_counts, pvars, avars, qvars,
                   bvars, hvars, svars, mvars, zvars>>

WNext == SortRequests \/ WindowStep \/ WindowsDone

SpecWindows == WInit /\ [][WNext]_vars

\* ========================================================================
\* Properties of parse_trace_file
\* ------------------------------------------------------------------------
\* Line classes, read off the text of the line alone
IsBlankOrComment(line) == line.comment \/ Len(line.toks) = 0
IsShortLine(line) == ~IsBlankOrComment(line) /\ Len(line.toks) < 8
RequiredInts(v) ==
    CASE v = "figure1" -> {1, 3, 5, 6, 7, 8}
      [] v = "figure5" -> {1, 5}
      [] v = "figure6" -> {1, 5, 6, 7}
      [] v = "figure7" -> {1, 2, 3, 5, 6, 7, 8}
\* a line of >= 8 fields one of whose required fields does not convert
HasBadRequiredField(v, line) ==
    /\ ~IsBlankOrComment(line)
    /\ Len(line.toks) >= 8
    /\ \/ \E i \in RequiredInts(v) : line.toks[i].k # "int"
       \/ line.toks[4].k = "word"
HasBadOptionalField(v, line) ==
    /\ v = "figure7"
    /\ \E i \in 9..10 : i <= Len(line.toks) /\ line.toks[i].k # "int"
WellFormed(v, line) ==
    /\ ~IsBlankOrComment(line)
    /\ Len(line.toks) >= 8
    /\ ~HasBadRequiredField(v, line)
    /\ ~HasBadOptionalField(v, line)

Consumed == SubSeq(file, 1, pos)
CountLines(s, P(_)) == Cardinality({i \in 1..Len(s) : P(s[i])})
Take(s, n) == SubSeq(s, 1, IF n < Len(s) THEN n ELSE Len(s))
WellFormedLines(s) == SelectSeq(s, LAMBDA line : WellFormed(pvariant, line))
EntrySig(e) == <<e["block_id"], e["time"]>>
TimeOfTok(tok) ==
    IF tok.k = "int" THEN [cls |-> "finite", ms |-> 1000 * tok.v]
    ELSE IF tok.k = "dec" THEN [cls |-> "finite", ms |-> tok.v]
    ELSE [cls |-> tok.k, ms |-> 0]
ExpectedSigs(s) ==
    [i \in 1..Len(WellFormedLines(s)) |->
        <<WellFormedLines(s)[i].toks[1].v, TimeOfTok(WellFormedLines(s)[i].toks[4])>>]
DataSigs == [i \in 1..Len(data) |-> EntrySig(data[i])]

\* the step just taken consumed the line `file[pos']`
ConsumedLineStep == ppc = "reading" /\ pos' = pos + 1

C2_ShortLineCounted ==
    [][(ConsumedLineStep /\ IsShortLine(file[pos'])) =>
            (data' = data /\ skipped_lines' = skipped_lines + 1)]_vars

\* C3: a line of >= 8 fields with a required field that fails conversion
\* appends nothing, adds exactly 1 to skipped_lines and leaves the loop
\* running; and when the parser returns, data holds every well-formed line
\* of the file, in file order, up to the entry cap.
C3_BadLineDoesNotAbort ==
    /\ [][(ConsumedLineStep /\ HasBadRequiredField(pvariant, file[pos'])) =>
            (data' = data /\ skipped_lines' = skipped_lines + 1 /\ ppc' = "reading")]_vars
    /\ [](ppc = "done" =>
            DataSigs = (IF Capped(pvariant) THEN Take(ExpectedSigs(file), max_entries)
                        ELSE ExpectedSigs(file)))

C3_Witness ==
    /\ ppc = "done"
    /\ \E i, j \in 1..Len(file) :
          /\ i < j /\ j <= pos
          /\ HasBadRequiredField(pvariant, file[i])
          /\ WellFormed(pvariant, file[j])
          /\ Len(data) >= 1
          /\ EntrySig(data[Len(data)]) = ExpectedSigs(<<file[j]>>)[1]
    /\ skipped_lines >= 1

\* C4 (as stated): every event in the parsed output has a finite timestamp.
C4_FiniteTimestamps ==
    \A i \in 1..Len(data) : data[i]["time"].cls = "finite"

\* C5: in the capped variants len(data) never exceeds max_entries; once it
\* equals max_entries no further line is consumed, counted or appended; and
\* the entries returned are the first max_entries well-formed lines in file
\* order.
C5_EntryCap ==
    /\ [](Capped(pvariant) => Len(data) <= max_entries /\ entry_count = Len(data))
    /\ [][(Capped(pvariant) /\ Len(data) = max_entries) =>
            (pos' = pos /\ data' = data /\ skipped_lines' = skipped_lines)]_vars
    /\ []((Capped(pvariant) /\ ppc = "done") =>
            DataSigs = Take(ExpectedSigs(file), max_entries))

C5_Witness ==
    /\ Capped(pvariant) /\ ppc = "done"
    /\ Len(data) = max_entries
    /\ pos < Len(file)
    /\ \E i \in (pos + 1)..Len(file) : WellFormed(pvariant, file[i])

\* C6: in the full-record parser a line with exactly 8 well-formed fields is
\* emitted, without rs_shard_id and op_count; rs_shard_id is in the entry
\* exactly when the line has a 9th field, op_count exactly when it has a 10th.
C6_OptionalFields ==
    [][(ConsumedLineStep /\ pvariant = "figure7" /\ WellFormed("figure7", file[pos'])) =>
          /\ Len(data') = Len(data) + 1
          /\ LET e == data'[Len(data')]
                 n == Len(file[pos'].toks)
             IN /\ ("rs_shard_id" \in DOMAIN e) <=> (n >= 9)
                /\ ("op_count" \in DOMAIN e) <=> (n >= 10)
                /\ (n >= 9) => e["rs_shard_id"] = file[pos'].toks[9].v
                /\ (n >= 10) => e["op_count"] = file[pos'].toks[10].v]_vars

C6_Witness ==
    /\ pvariant = "figure7" /\ ppc = "done"
    /\ \E i \in 1..Len(data) : DOMAIN data[i] \cap {"rs_shard_id", "op_count"} = {}
    /\ \E i \in 1..Len(data) : DOMAIN data[i] \cap {"rs_shard_id", "op_count"} = {"rs_shard_id"}
    /\ \E i \in 1..Len(data) : {"rs_shard_id", "op_count"} \subseteq DOMAIN data[i]

\* ========================================================================
\* Properties of the inter-arrival analyzers
\* ------------------------------------------------------------------------
\* the group the metrics loop visited last, as the dict now holds it
Visited == gi >= 1
LastKey == key_order[gi]
LastGroup == block_requests[LastKey]
InRange(d) == 0 < d /\ d < 20000
Filtering == avariant \in {"figure5", "figure6"}
TimesOf(requests) == [i \in 1..Len(requests) |-> requests[i].time]

C8_Original ==
    (Visited /\ Len(LastGroup) >= 2) => Len(deltas) = Len(LastGroup) - 1

\* C8 (amended): the analyzer computes one delta per pair of consecutive
\* events in timestamp order: n - 1 of them, except that process_single_block
\* looks at the first 20 events only and computes min(n, 20) - 1.
C8_DeltaCount ==
    (Visited /\ Len(LastGroup) >= 2) =>
        /\ Len(deltas) = (IF avariant = "figure5" /\ Len(LastGroup) > 20 THEN 19
                          ELSE Len(LastGroup) - 1)
        /\ \A i \in 1..Len(deltas) : deltas[i] = LastGroup[i + 1].time - LastGroup[i].time
        /\ \A i \in 1..(Len(LastGroup) - 1) : LastGroup[i].time <= LastGroup[i + 1].time

C8_Witness ==
    /\ avariant = "figure5" /\ Visited
    /\ Len(LastGroup) = 21
    /\ Len(deltas) = 19
    /\ deltas[1] # deltas[19]

\* C9: a group with fewer than 2 events, or with no delta in (0, 20000),
\* adds nothing to the output lists; the loop goes on to the remaining
\* groups, so at the end the outputs are those of exactly the groups that
\* have a sample, in dict order; no output value is a zero sentinel.
GroupHasSample(r) ==
    LET n == IF avariant = "figure5" /\ Len(r) > 20 THEN 20 ELSE Len(r)
    IN /\ Len(r) >= 2
       /\ \E i \in 1..(n - 1) : InRange(r[i + 1].time - r[i].time)
HasSample(key) == GroupHasSample(block_requests[key])
Outputs == <<protected_caps, tau_values, alpha_tti_values, peak_dt_values>>
C9_DroppedGroups ==
    /\ [][(Filtering /\ apc = "metrics" /\ gi' = gi + 1
              /\ ~GroupHasSample(block_requests'[key_order[gi + 1]]))
            => (Outputs' = Outputs /\ apc' = "metrics")]_vars
    /\ []((Filtering /\ apc = "done") =>
            /\ gi = Len(key_order)
            /\ Len(peak_dt_values) = Len(SelectSeq(key_order, HasSample))
            /\ avariant = "figure6" => protected_caps = SelectSeq(key_order, HasSample)
            /\ avariant = "figure5" => Len(tau_values) = Len(peak_dt_values)
            /\ \A i \in 1..Len(peak_dt_values) : peak_dt_values[i].num > 0
            /\ \A i \in 1..Len(tau_values) : tau_values[i].num > 0)

C9_Witness ==
    /\ Filtering /\ apc = "done"
    /\ Len(key_order) = 2
    /\ ~HasSample(key_order[1])
    /\ Len(block_requests[key_order[1]]) >= 2
    /\ HasSample(key_order[2])
    /\ Len(peak_dt_values) = 1

\* C10: a group whose events have timestamps 10.000, 10.050 and 10.200 s
\* yields deltas [50, 150] ms, typical_ms (mean) = 100 and peak_ms (95th
\* percentile) = 145.
ScenarioGroup ==
    /\ Visited /\ Filtering
    /\ TimesOf(LastGroup) = <<10000, 10050, 10200>>
C10_Scenario ==
    ScenarioGroup =>
        /\ deltas = <<50, 150>>
        /\ inter_arrival_times = <<50, 150>>
        /\ LET peak == peak_dt_values[Len(peak_dt_values)]
           IN peak.num = 145 * peak.den
        /\ avariant = "figure5" =>
              LET tau == tau_values[Len(tau_values)]
              IN tau.num = 100 * tau.den

C10_Witness ==
    /\ ScenarioGroup /\ avariant = "figure5"
    /\ TimesOf(trace_data) = <<10200, 10000, 10050>>
    /\ Len(tau_values) = 1 /\ Len(peak_dt_values) = 1

\* C11: a group whose retained deltas all equal one constant c (a single
\* delta included) is emitted with peak_ms = c and typical_ms = c.
AllEqual(xs) == \A i \in 1..Len(xs) : xs[i] = xs[1]
C11_Degenerate ==
    (Visited /\ Filtering /\ inter_arrival_times # <<>> /\ AllEqual(inter_arrival_times)) =>
        /\ peak_dt_values # <<>>
        /\ LET peak == peak_dt_values[Len(peak_dt_values)]
           IN peak.num = inter_arrival_times[1] * peak.den
        /\ avariant = "figure5" =>
              /\ tau_values # <<>>
              /\ LET tau == tau_values[Len(tau_values)]
                 IN tau.num = inter_arrival_times[1] * tau.den

C11_Witness ==
    /\ Visited /\ avariant = "figure5"
    /\ Len(inter_arrival_times) >= 3
    /\ AllEqual(inter_arrival_times)
    /\ tau_values = <<[num |-> 50 * Len(inter_arrival_times), den |-> Len(inter_arrival_times)]>>
    /\ peak_dt_values = <<[num |-> 1000, den |-> 20]>>

\* ========================================================================
\* Properties of the 95th percentile
\* ------------------------------------------------------------------------
\* C12: the 95th percentile of a non-empty list equals that of every
\* permutation of it, the sorted list in particular.
IsSorted(xs) == \A i \in 1..(Len(xs) - 1) : xs[i] <= xs[i + 1]
BinnedByFigure7 ==
    bvariant = "figure7" /\ bpc = "done" /\ Len(alpha_tti_values) > num_bins

\* the bin intervals pair j was counted in
BinsOf(j) == {k \in 1..Len(bin_indices) : j \in bin_indices[k]}

\* C13: for N > B in Figures/figure7 calculate_metrics every input pair (its
\* metric_x necessarily within [min, max]) is a member of exactly one bin
\* interval: counted in no two bins, and counted in at least one.
C13_Partition ==
    BinnedByFigure7 =>
        \A j \in 1..Len(alpha_tti_values) : Cardinality(BinsOf(j)) = 1

\* the sum of the member counts of the emitted bins
SumCounts == SumSeq(bin_counts)

\* pair j has the largest metric_x of the input
AtDomainMax(xs, j) == \A i \in 1..Len(xs) : xs[i].num * xs[j].den <= xs[j].num * xs[i].den

\* C14: for N > B the member counts of the emitted bins sum to at most N, to
\* exactly N when no value equals the domain maximum, and the values equal to
\* the domain maximum are members of the last bin.
C14_CountSum ==
    BinnedByFigure7 =>
        /\ SumCounts <= Len(alpha_tti_values)
        /\ (\A j \in 1..Len(alpha_tti_values) : ~AtDomainMax(alpha_tti_values, j))
              => SumCounts = Len(alpha_tti_values)
        /\ \A j \in 1..Len(alpha_tti_values) :
              AtDomainMax(alpha_tti_values, j) => j \in bin_indices[Len(bin_indices)]

\* 20 pairs with one common metric_x, binned into 5 bins
IdenticalScenario ==
    /\ bvariant = "figure7"
    /\ bpc = "done"
    /\ num_bins = 5
    /\ Len(alpha_tti_values) = 20
    /\ \A j \in 1..20 : alpha_tti_values[j] = alpha_tti_values[1]

\* C15: 20 pairs with identical metric_x binned into 5 bins come out as
\* exactly one bin, whose member count is 20.
C15_IdenticalX ==
    IdenticalScenario => Len(bin_counts) = 1 /\ bin_counts[1] = 20

\* the number of pairs handed to the running binner
PairCount == Len(BinnedX)
Ones(n) == [i \in 1..n |-> 1]

\* the pairs came back as they went in, each counted once, and no bin was made
PassedThrough ==
    /\ binned_alpha = BinnedX
    /\ binned_peak_dt = peak_dt_values
    /\ bvariant = "figure7" => bin_counts = Ones(PairCount)
    /\ alpha_bins = <<>>
    /\ bin_indices = <<>>

\* C16 as stated, of both binners: N <= B returns the pairs unchanged, in
\* order, each with member count 1; only N > B is binned.
C16_Original ==
    bpc = "done" =>
        IF PairCount <= num_bins THEN PassedThrough ELSE alpha_bins # <<>>

\* C16: Figures/figure7 calculate_metrics returns N <= B pairs unchanged, in
\* order, each with member count 1, and bins (num_bins - 1 intervals) only when
\* N > B; scripts/figure5 calculate_binned_metrics has no such path and always
\* bins into num_bins intervals.
C16_DualPath ==
    bpc = "done" =>
        IF bvariant = "figure7"
        THEN IF PairCount <= num_bins THEN PassedThrough
             ELSE Len(alpha_bins) = num_bins /\ Len(bin_indices) = num_bins - 1
        ELSE /\ Len(alpha_bins) = num_bins + 1
             /\ Len(bin_indices) = num_bins
             /\ Len(binned_alpha) = num_bins
             /\ Len(binned_peak_dt) = num_bins

\* as many pairs as bins, not in ascending order, passed through
C16_Witness ==
    /\ bvariant = "figure7"
    /\ bpc = "done"
    /\ PairCount = num_bins
    /\ alpha_tti_values[2].num * alpha_tti_values[1].den
          < alpha_tti_values[1].num * alpha_tti_values[2].den
    /\ peak_dt_values[1] # peak_dt_values[2]
    /\ PassedThrough

\* the pairs whose metric_x lies in the i-th interval [edge i, edge i+1)
PairsIn(i) ==
    {j \in 1..PairCount :
        /\ alpha_bins[i].num * BinnedX[j].den <= BinnedX[j].num * alpha_bins[i].den
        /\ BinnedX[j].num * alpha_bins[i + 1].den < alpha_bins[i + 1].num * BinnedX[j].den}

\* the intervals the bin loop has been through that hold at least one pair
Occupied == {i \in 1..bi : PairsIn(i) # {}}

\* a bin loop is running or has run
Binning == bpc \in {"binning", "done"} /\ alpha_bins # <<>>

IsKth(v, S, k) ==
    /\ Cardinality({j \in S : peak_dt_values[j].num * v.den < v.num * peak_dt_values[j].den}) < k
    /\ Cardinality({j \in S : peak_dt_values[j].num * v.den <= v.num * peak_dt_values[j].den}) >= k

\* m is the median of the metric_y of the pairs in S: the middle value, or
\* half the sum of the two middle values
IsMedianOf(m, S) ==
    LET n == Cardinality(S)
    IN IF n % 2 = 1
       THEN \E j \in S :
               /\ IsKth(peak_dt_values[j], S, (n + 1) \div 2)
               /\ m.num * peak_dt_values[j].den = peak_dt_values[j].num * m.den
       ELSE \E j, l \in S :
               /\ IsKth(peak_dt_values[j], S, n \div 2)
               /\ IsKth(peak_dt_values[l], S, n \div 2 + 1)
               /\ 2 * m.num * peak_dt_values[j].den * peak_dt_values[l].den
                     = m.den * (peak_dt_values[j].num * peak_dt_values[l].den
                                + peak_dt_values[l].num * peak_dt_values[j].den)

\* c is the middle of the i-th interval
IsCenterOf(c, i) ==
    2 * c.num * alpha_bins[i].den * alpha_bins[i + 1].den
       = c.den * (alpha_bins[i].num * alpha_bins[i + 1].den
                  + alpha_bins[i + 1].num * alpha_bins[i].den)

\* the interval of the k-th record: Figures/figure7 emits the occupied
\* intervals in order, scripts/figure5 emits every interval
IntervalOf(k) ==
    IF bvariant = "figure7"
    THEN CHOOSE i \in Occupied : Cardinality({h \in Occupied : h <= i}) = k
    ELSE k

\* C18 as stated, of both binners: each record of a non-empty bin holds the
\* median metric_y of exactly the pairs in its interval, the interval's
\* center, and the number of those pairs.
C18_Original ==
    Binning =>
        \A k \in 1..Len(binned_peak_dt) :
            PairsIn(IntervalOf(k)) # {} =>
                /\ bin_indices[IntervalOf(k)] = PairsIn(IntervalOf(k))
                /\ IsMedianOf(binned_peak_dt[k], PairsIn(IntervalOf(k)))
                /\ IsCenterOf(binned_alpha[k], IntervalOf(k))
                /\ bvariant = "figure7" => bin_counts[k] = Cardinality(PairsIn(IntervalOf(k)))

\* C18: in Figures/figure7 calculate_metrics each emitted bin records the
\* median metric_y of exactly the pairs with bin_start <= metric_x < bin_end,
\* the center (bin_start + bin_end) / 2 and the number of those pairs;
\* scripts/figure5 calculate_binned_metrics records the mean metric_y of
\* those pairs, the same center, and no member count.
C18_BinRecords ==
    Binning =>
        /\ \A k \in 1..Len(binned_peak_dt) :
              /\ bin_indices[IntervalOf(k)] = PairsIn(IntervalOf(k))
              /\ IsCenterOf(binned_alpha[k], IntervalOf(k))
              /\ bvariant = "figure7" =>
                    /\ IsMedianOf(binned_peak_dt[k], PairsIn(IntervalOf(k)))
                    /\ bin_counts[k] = Cardinality(PairsIn(IntervalOf(k)))
              /\ (bvariant = "figure5" /\ PairsIn(k) # {}) =>
                    RatEq(binned_peak_dt[k], RatMean(Pick(peak_dt_values, PairsIn(k))))
        /\ bvariant = "figure5" => bin_counts = <<>>

\* Figures/figure7 emitted a bin of three or more pairs whose median is not
\* their mean, and a bin of an even number of pairs with two middle values
C18_Witness ==
    /\ bvariant = "figure7"
    /\ bpc = "done"
    /\ alpha_bins # <<>>
    /\ \E k \in 1..Len(bin_counts) :
          /\ bin_counts[k] >= 3
          /\ bin_counts[k] % 2 = 1
          /\ ~RatEq(binned_peak_dt[k], RatMean(Pick(peak_dt_values, PairsIn(IntervalOf(k)))))
    /\ \E k \in 1..Len(bin_counts) :
          /\ bin_counts[k] % 2 = 0
          /\ \A j \in PairsIn(IntervalOf(k)) : peak_dt_values[j] # binned_peak_dt[k]

\* ========================================================================
\* Properties of calculate_hit_rates

\* the trace entries of bucket s, and those among them whose hit field is 1
BucketEntries(s) ==
    {i \in 1..Len(hit_trace_data) : hit_trace_data[i].pipeline % 3 = s}
BucketHits(s) == {i \in BucketEntries(s) : hit_trace_data[i].hit = 1}

\* the hit fields of bucket s, in trace order
BucketHitFields(s) ==
    LET idx == SelectSeq([i \in 1..Len(hit_trace_data) |-> i],
                         LAMBDA i : i \in BucketEntries(s))
    IN [k \in 1..Len(idx) |-> hit_trace_data[idx[k]].hit]

\* the bucket reported under a name
BucketNamed(name) == CHOOSE s \in 0..2 : <<"E0", "E1", "E2">>[s + 1] = name

\* every trace entry has been tallied
Tallied == hpc \in {"reporting", "done"}

\* C19: every bucket keeps 0 <= hits <= total while events are accumulated;
\* once all are accumulated its total is the number of its events and its hits
\* the number of those with hit field 1; every reported rate is exactly
\* hits/total of its bucket and lies in [0, 1]; hit fields [1,0,1,1] in
\* bucket 0 are reported as 3/4.
C19_HitRate ==
    /\ \A s \in 0..2 : 0 <= schemes[s].hits /\ schemes[s].hits <= schemes[s].total
    /\ Tallied =>
          \A s \in 0..2 :
              /\ schemes[s].total = Cardinality(BucketEntries(s))
              /\ schemes[s].hits = Cardinality(BucketHits(s))
    /\ Len(hit_rates) = Len(scheme_names)
    /\ \A k \in 1..Len(hit_rates) :
          LET s == BucketNamed(scheme_names[k])
          IN /\ hit_rates[k].num = Cardinality(BucketHits(s))
             /\ hit_rates[k].den = Cardinality(BucketEntries(s))
             /\ hit_rates[k].den > 0
             /\ 0 <= hit_rates[k].num
             /\ hit_rates[k].num <= hit_rates[k].den
    /\ (hit_result = "table" /\ BucketHitFields(0) = <<1, 0, 1, 1>>) =>
          /\ scheme_names[1] = "E0"
          /\ 4 * hit_rates[1].num = 3 * hit_rates[1].den

\* the scenario: bucket 0, fed by two pipelines, saw hit fields [1,0,1,1]
C19_Witness ==
    /\ hit_result = "table"
    /\ BucketHitFields(0) = <<1, 0, 1, 1>>
    /\ Len(pipeline_order) = 2
    /\ hit_rates = <<Rat(3, 4)>>

\* the names of the buckets in the output
ReportedNames == {scheme_names[k] : k \in 1..Len(scheme_names)}

\* C20: a bucket with zero total is not in the output, a bucket with events
\* is; when every bucket has zero total the function returns (None, None),
\* otherwise a non-empty table; the division never has a zero divisor.
C20_ZeroTotal ==
    /\ hit_result # "ZeroDivisionError"
    /\ \A s \in 0..2 : BucketEntries(s) = {} => <<"E0", "E1", "E2">>[s + 1] \notin ReportedNames
    /\ hpc = "done" =>
          /\ \A s \in 0..2 :
                BucketEntries(s) # {} => <<"E0", "E1", "E2">>[s + 1] \in ReportedNames
          /\ hit_result = (IF \A s \in 0..2 : BucketEntries(s) = {} THEN "none" ELSE "table")
          /\ hit_result = "table" => hit_rates # <<>>
          /\ hit_result = "none" => hit_rates = <<>> /\ scheme_names = <<>>

\* a bucket without events is left out while a bucket of misses only is
\* reported with rate 0
C20_Witness ==
    /\ hpc = "done"
    /\ hit_result = "table"
    /\ \E s \in 0..2 : BucketEntries(s) = {}
    /\ \E k \in 1..Len(hit_rates) : hit_rates[k].num = 0
    /\ Len(hit_rates) = 2

\* the sum of the three buckets' totals
TotalTallied == schemes[0].total + schemes[1].total + schemes[2].total

\* the bucket whose total is one more after a step; none when no total moved
\* by exactly one
BucketsBumped ==
    {k \in 0..2 : schemes'[k].total = schemes[k].total + 1}

\* C21: each event is tallied in exactly one bucket, the one with index
\* pipeline mod 3: a tally step adds 1 to that bucket's total and leaves the
\* other two alone; after the full pass the three totals sum to the number of
\* parsed events and bucket k's total is the number of events with
\* pipeline mod 3 = k.
C21_BucketTally ==
    /\ [](Tallied =>
            /\ TotalTallied = Len(hit_trace_data)
            /\ \A k \in 0..2 :
                  schemes[k].total
                     = Cardinality({i \in 1..Len(hit_trace_data) :
                                       \E m \in -2..2 :
                                          hit_trace_data[i].pipeline = 3 * m + k}))
    /\ [][schemes' # schemes =>
            /\ hpc = "tallying"
            /\ LET req == pipeline_requests[pipeline_order[hgi + 1]][hri + 1]
               IN /\ BucketsBumped = {CHOOSE k \in 0..2 : \E m \in -2..2 : req.pipeline = 3 * m + k}
                  /\ \A k \in 0..2 : k \notin BucketsBumped => schemes'[k].total = schemes[k].total]_vars

\* a full pass over pipelines -1, 0, 1 and 3 that filled all three buckets
C21_Witness ==
    /\ hpc = "done"
    /\ Len(hit_trace_data) = 4
    /\ schemes[0].total = 2
    /\ schemes[1].total = 1
    /\ schemes[2].total = 1
    /\ Len(pipeline_order) = 4

\* ========================================================================
\* Properties of calculate_peak_dt_metrics

\* the consecutive differences of a group sorted by time, and its peak value
DeltasOf(r) == [i \in 1..(Len(r) - 1) |-> r[i + 1].time - r[i].time]
PeakOfPipeline(p) == Percentile95(SelectSeq(DeltasOf(block_requests[p]), InRange))

\* the pipelines assigned to scheme k that produced a sample
Contributors(k) ==
    {p \in DOMAIN block_requests : (\E m \in 0..1 : p = 3 * m + k) /\ HasSample(p)}

\* the sum of the peak values (held in twentieths) of a set of pipelines
RECURSIVE SumPeaks20(_)
SumPeaks20(S) ==
    IF S = {} THEN 0
    ELSE LET p == CHOOSE q \in S : TRUE
         IN PeakOfPipeline(p).num + SumPeaks20(S \ {p})

\* the scheme index a label stands for
IndexOfLabel(label) == CHOOSE k \in 0..2 : <<"E0", "E1", "E2">>[k + 1] = label

\* C22: calculate_peak_dt_metrics emits one value per scheme with a
\* contributing pipeline (pipeline mod 3, at least one retained delta) and
\* none for a scheme without; the value is the arithmetic mean of the
\* contributing pipelines' peak values; the labels follow the order E0, E1,
\* E2 and there are as many labels as values.
C22_SchemeAverage ==
    (avariant = "figure1" /\ apc = "done") =>
        /\ Len(scheme_labels) = Len(avg_peak_dts)
        /\ \A k \in 0..2 :
              (Contributors(k) # {})
                 <=> (\E i \in 1..Len(scheme_labels) : IndexOfLabel(scheme_labels[i]) = k)
        /\ \A i, j \in 1..Len(scheme_labels) :
              i < j => IndexOfLabel(scheme_labels[i]) < IndexOfLabel(scheme_labels[j])
        /\ \A i \in 1..Len(scheme_labels) :
              LET c == Contributors(IndexOfLabel(scheme_labels[i]))
              IN avg_peak_dts[i].num * 20 * Cardinality(c)
                    = avg_peak_dts[i].den * SumPeaks20(c)

\* scheme E0 averaged over two pipelines with different peaks
C22_Witness ==
    /\ avariant = "figure1"
    /\ apc = "done"
    /\ scheme_labels = <<"E0">>
    /\ Cardinality(Contributors(0)) = 2
    /\ PeakOfPipeline(0) # PeakOfPipeline(3)
    /\ Len(key_order) = 2

\* ========================================================================
\* Properties of main

\* the run found no trace file, or its metrics loop emitted no sample (empty
\* trace, or every group dropped)
NoUsableResult ==
    \/ trace_files = 0
    \/ mpc \in {"binning", "plot", "returned"} /\ peak_dt_values = <<>>

\* C23: when the computation yields no usable result, main ends with an
\* explicit no-data outcome raised before the plotting function is called,
\* in every script's main, that of Figures/figure7 included; main always
\* returns with an outcome.
C23_NoDataOutcome ==
    /\ NoUsableResult => ~plotted
    /\ (mpc = "returned" /\ NoUsableResult) =>
          main_outcome \in {"FileNotFoundError", "ValueError: no valid metrics"}
    /\ mpc = "returned" => main_outcome # "running"

\* ========================================================================
\* Properties of the grouping loop and of the per-group sort

\* an event's own key: its pipeline in the per-pipeline script, its block_id
\* in the per-block scripts
OwnKey(e) == IF avariant = "figure6" THEN e.pipeline ELSE e.block_id

\* the events grouped so far, in file order
Grouped == SubSeq(trace_data, 1, ti)

\* no group has been sorted yet
Unsorted == apc = "grouping" \/ (apc = "metrics" /\ gi = 0)

\* C24: the grouper partitions the parsed events: the groups' keys are
\* exactly the keys occurring among the events, each group holds exactly the
\* events carrying its key, in file order (so every event is in exactly one
\* group, no group is empty, and a single event makes a group of one); when
\* the grouping loop ends every parsed event has been grouped.
C24_Partition ==
    /\ Unsorted =>
          /\ DOMAIN block_requests = {OwnKey(Grouped[i]) : i \in 1..ti}
          /\ \A k \in DOMAIN block_requests :
                /\ block_requests[k] = SelectSeq(Grouped, LAMBDA e : OwnKey(e) = k)
                /\ block_requests[k] # <<>>
          /\ {key_order[i] : i \in 1..Len(key_order)} = DOMAIN block_requests
          /\ Len(key_order) = Cardinality(DOMAIN block_requests)
    /\ apc \in {"metrics", "done"} => ti = Len(trace_data)

\* the grouping loop ended with a group of one event and a group of two
\* whose events were not adjacent in the file
C24_Witness ==
    /\ apc = "metrics"
    /\ gi = 0
    /\ Len(trace_data) = 3
    /\ OwnKey(trace_data[1]) = OwnKey(trace_data[3])
    /\ OwnKey(trace_data[1]) # OwnKey(trace_data[2])
    /\ trace_data[1] # trace_data[3]
    /\ Len(block_requests[OwnKey(trace_data[2])]) = 1
    /\ block_requests[OwnKey(trace_data[1])] = <<trace_data[1], trace_data[3]>>

\* the events of key k in file order
FileOrderGroup(k) == SelectSeq(trace_data, LAMBDA e : OwnKey(e) = k)

\* the place of the i-th event of g once g is ordered by time with ties in
\* original order
StablePlace(g, i) ==
    1 + Cardinality({j \in 1..Len(g) :
                        \/ g[j].time < g[i].time
                        \/ g[j].time = g[i].time /\ j < i})

\* C25: once a group of two or more events has been visited its events are
\* ordered by timestamp ascending, events of equal timestamp keeping their
\* file order, whatever the order of the input; the deltas are the
\* differences of consecutive events of that order, hence never negative.
C25_StableSort ==
    /\ \A n \in 1..gi :
          LET g == FileOrderGroup(key_order[n])
              s == block_requests[key_order[n]]
          IN Len(g) >= 2 =>
                /\ Len(s) = Len(g)
                /\ \A i \in 1..Len(g) : s[StablePlace(g, i)] = g[i]
                /\ \A i \in 1..(Len(s) - 1) : s[i].time <= s[i + 1].time
    /\ (Visited /\ apc = "metrics") =>
          \A i \in 1..Len(deltas) :
              /\ deltas[i] = LastGroup[i + 1].time - LastGroup[i].time
              /\ deltas[i] >= 0

\* a visited group that arrived out of order and holds two different events
\* of equal timestamp
C25_Witness ==
    /\ Visited
    /\ Len(LastGroup) = 3
    /\ \E i \in 1..2 : FileOrderGroup(LastKey)[i].time > FileOrderGroup(LastKey)[i + 1].time
    /\ \E i \in 1..2 :
          /\ LastGroup[i].time = LastGroup[i + 1].time
          /\ LastGroup[i] # LastGroup[i + 1]
    /\ FileOrderGroup(LastKey) # LastGroup

\* C26: the grouping loop and the per-group steps (the in-place sort
\* included) never change the parsed event sequence, and a per-group step
\* changes no group other than the one it visits; the visited group keeps
\* its length.
C26_NoAliasing ==
    /\ [][apc # "idle" => trace_data' = trace_data]_vars
    /\ [][(apc = "metrics" /\ gi' = gi + 1) =>
            /\ DOMAIN block_requests' = DOMAIN block_requests
            /\ \A k \in DOMAIN block_requests :
                  /\ k # key_order[gi + 1] => block_requests'[k] = block_requests[k]
                  /\ Len(block_requests'[k]) = Len(block_requests[k])]_vars

\* the first group has been reordered by its sort while the second, also
\* out of order, is still as the grouper left it, and so is the parsed sequence
C26_Witness ==
    /\ apc = "metrics"
    /\ gi = 1
    /\ Len(key_order) = 2
    /\ block_requests[key_order[1]] # FileOrderGroup(key_order[1])
    /\ block_requests[key_order[2]] = FileOrderGroup(key_order[2])
    /\ Len(block_requests[key_order[2]]) = 2
    /\ block_requests[key_order[2]][1].time > block_requests[key_order[2]][2].time

\* ========================================================================
\* Properties of the alpha_tti variant

\* 0 < v < ceiling for a rational v
StrictlyWithin(v, ceiling) == v.den > 0 /\ 0 < v.num /\ v.num < ceiling * v.den

\* the sum of a list of integers
RECURSIVE Total(_)
Total(xs) == IF xs = <<>> THEN 0 ELSE xs[Len(xs)] + Total(SubSeq(xs, 1, Len(xs) - 1))

\* C27: in Figures/figure7 calculate_metrics every emitted pair satisfies
\* 0 < alpha_tti < 20 and 0 < peak_dt < 10000, with a non-zero divisor; a
\* visited block is emitted exactly when its deltas have a positive mean m,
\* 1000/m < 20 and its peak lies in (0, 10000), and then alpha_tti = 1000/m;
\* a block whose deltas are all zero is therefore dropped.
C27_AlphaTti ==
    /\ [](avariant = "figure7" =>
            /\ Len(alpha_tti_values) = Len(peak_dt_values)
            /\ \A i \in 1..Len(alpha_tti_values) :
                  /\ StrictlyWithin(alpha_tti_values[i], 20)
                  /\ StrictlyWithin(peak_dt_values[i], 10000))
    /\ [][(avariant = "figure7" /\ apc = "metrics" /\ gi' = gi + 1) =>
            LET n == Len(deltas')
                sum == Total(deltas')
                emitted == Len(alpha_tti_values') = Len(alpha_tti_values) + 1
            IN /\ emitted \/ alpha_tti_values' = alpha_tti_values
               /\ emitted <=>
                     /\ n >= 1
                     /\ sum > 0
                     /\ 1000 * n < 20 * sum
                     /\ StrictlyWithin(Percentile95(deltas'), 10000)
               /\ emitted =>
                     LET alpha == alpha_tti_values'[Len(alpha_tti_values')]
                     IN /\ alpha.num * sum = 1000 * n * alpha.den
                        /\ peak_dt_values'[Len(peak_dt_values')] = Percentile95(deltas')]_vars

\* one block has been emitted and a later block, whose only delta is zero,
\* has been dropped
C27_Witness ==
    /\ avariant = "figure7"
    /\ apc = "metrics"
    /\ gi = 2
    /\ deltas = <<0>>
    /\ Len(alpha_tti_values) = 1

\* ========================================================================
\* Properties of the emitted samples

\* v lies between the smallest and the largest element of xs
BetweenExtremes(v, xs) ==
    /\ v.den > 0
    /\ \E i \in 1..Len(xs) : xs[i] * v.den <= v.num
    /\ \E i \in 1..Len(xs) : v.num <= xs[i] * v.den

\* the visited group has just yielded a sample
SampleEmitted == Visited /\ Filtering /\ apc = "metrics" /\ inter_arrival_times # <<>>

SizesRequested == {size_trace_data[i].size : i \in DOMAIN size_trace_data}
TimesRequested(b) == Cardinality({i \in DOMAIN size_trace_data : size_trace_data[i].size = b})
\* the size in bytes that a size key in megabytes stands for
BytesOfKey(k) == k.num * (BytesPerMB \div k.den)
SelectedBytes == {BytesOfKey(selected_sizes[i]) : i \in DOMAIN selected_sizes}
PlaceSelected(k) == CHOOSE i \in DOMAIN selected_sizes : selected_sizes[i] = k
SizesSelected == zpc \in {"metrics", "done"}

\* C29: analyze_cache_sizes selects min(8, number of distinct sizes) sizes of
\* the trace, no size twice; no unselected size is requested more often than
\* a selected one; the selected sizes stand in descending order of request
\* count, sizes of equal count in ascending order of size (each selected size
\* compared with the next one); and the sizes
\* calculate_metrics emits are selected sizes, in the order of the selection,
\* each with one peak value.
C29_TopSizes ==
    /\ SizesSelected =>
          /\ Len(selected_sizes) =
                IF Cardinality(SizesRequested) < 8 THEN Cardinality(SizesRequested) ELSE 8
          /\ SelectedBytes \subseteq SizesRequested
          /\ Cardinality(SelectedBytes) = Len(selected_sizes)
          /\ \A b \in SelectedBytes : \A u \in SizesRequested \ SelectedBytes :
                TimesRequested(b) >= TimesRequested(u)
          /\ \A i \in 1..(Len(selected_sizes) - 1) :
                   LET earlier == BytesOfKey(selected_sizes[i])
                       later == BytesOfKey(selected_sizes[i + 1])
                   IN \/ TimesRequested(earlier) > TimesRequested(later)
                      \/ /\ TimesRequested(earlier) = TimesRequested(later)
                         /\ earlier < later
    /\ Len(size_peak_dt_values) = Len(cache_sizes)
    /\ \A i \in DOMAIN cache_sizes :
          /\ \E j \in 1..zi : selected_sizes[j] = cache_sizes[i]
          /\ \A j \in DOMAIN cache_sizes :
                i < j => PlaceSelected(cache_sizes[i]) < PlaceSelected(cache_sizes[j])

\* more than eight sizes were requested, two selected sizes tie on the count,
\* and calculate_metrics emitted some of the selected sizes but not all
C29_Witness ==
    /\ zpc = "done"
    /\ Cardinality(SizesRequested) > 8
    /\ \E i, j \in DOMAIN selected_sizes :
          /\ i < j
          /\ TimesRequested(BytesOfKey(selected_sizes[i])) =
                TimesRequested(BytesOfKey(selected_sizes[j]))
    /\ \E b \in SelectedBytes : \E u \in SizesRequested \ SelectedBytes :
          TimesRequested(b) = TimesRequested(u)
    /\ cache_sizes # <<>>
    /\ Len(cache_sizes) < Len(selected_sizes)
    /\ sizes_result = "table"

\* ========================================================================
\* Properties of calculate_median_dt_metrics (scripts/figure2)
\* ------------------------------------------------------------------------
\* the windows [time_bins[k], time_bins[k+1]) that hold the time t
WindowsOf(t) == {k \in 1..(Len(time_bins) - 1) : time_bins[k] <= t /\ t < time_bins[k + 1]}
\* every window the loop went through was emitted
NoWindowDropped == Len(request_counts) = Len(time_bins) - 1
WindowsReturned == wpc \in {"done", "smoothed"}

\* C30: when calculate_median_dt_metrics returns, every event of the trace,
\* the ones with the maximum timestamp included, lies in exactly one window
\* [start, start + time_window), and when no window was dropped the request
\* counts of the windows add up to the number of events.
C30_WindowsCover ==
    WindowsReturned =>
       /\ \A j \in DOMAIN window_trace_data :
             Cardinality(WindowsOf(window_trace_data[j].time)) = 1
       /\ NoWindowDropped => SumSeq(request_counts) = Len(window_trace_data)
============================================================================
